---- MODULE Spec2Model ----
(***************************************************************************)
(* Codex (Amiga C linter): the line sanitizer, the brace/declaration       *)
(* tracker and the Forbid()/Permit() pairing monitor of Source/codex.c.    *)
(*                                                                         *)
(* A line is a sequence of one-character strings.  Positions are 1-based;  *)
(* position Len(line)+1 holds the C string terminator.                     *)
(***************************************************************************)
EXTENDS Integers, Sequences, FiniteSets, TLC

\* ---------------------------------------------------------------- bounds
MaxScanLen == 3
MaxScanLines == 2
MaxLines == 4
MaxDepthLines == 4    \* lines of a file of DepthSpec
MaxFileLines == 3     \* lines of the two files of FileSpec together
MaxPairLines == 7     \* lines of a file of PairSpec
MaxModeLines == 1     \* lines of a file of ModeSpec
MaxNestLines == 7     \* lines of a file of NestSpec
MaxCallLines == 4     \* lines of a file of CallSpec
MaxOverflowLines == 4 \* lines of a file of OverflowSpec
MaxFreeLines == 4     \* lines of a file of FreeSpec

\* ------------------------------------------------------ program constants
MAX_ERRORS == 1000
MAX_BLOCK_DEPTH == 32
COMMENT_START_LENGTH == 2
ARRAY_OFFSET_1 == 1
line_length_limit == 256

NUL == "NUL"
OOB == "OOB"

\* ----------------------------------------------------------------- state
VARIABLES
  validate,      \* the validate_*_standards flags, one field per flag
  parse_state,   \* static ParseState parse_state
  errtab,        \* error_count, errors[] and the overflow notices (see above)
  cur_line_num,  \* process_file's line_num
  total_lines,   \* lines read over all files
  files_left,    \* entries of args.files not yet processed
  pc,            \* "idle" before a file, "reading" between lines,
                 \* "scanning" inside the scan loop, "closed" after the file
  line_buffer,   \* process_file's line_buffer: the line being processed
  scan,          \* the locals of the scan loop of process_line; between two
                 \* calls only what the last call left in the quote flags
  trace          \* history: one record per line processed in this file

vars == <<validate, parse_state, errtab, cur_line_num, total_lines, files_left,
          pc, line_buffer, scan, trace>>

\* --------------------------------------------------------- string helpers
\* *(line + i - 1): the character at 1-based position i, the terminator at
\* Len+1, and an out-of-bounds read beyond it.
CharAt(line, i) ==
  IF i >= 1 /\ i <= Len(line) THEN line[i]
  ELSE IF i = Len(line) + 1 THEN NUL
  ELSE OOB

\* ------------------------------------------------------------- sanitizer
\* Scanner state of the while(*s) loop of process_line:
\*   s    read position in line,  out  characters written through p,
\*   in_comment = parse_state.in_multiline_comment, in_string,
\*   in_char_literal, and status: "scan" (loop running), "end" (loop left at
\*   the terminator), "cpp" (loop left at a '//' marker).
\*   in0  the value of in_comment when the line began (history),
\*   quote0  a quote flag was still set when the scan of the previous line
\*   ended (history).
\* The locals as process_line initializes them on entry.
NoScan ==
  [s |-> 1, out |-> <<>>, in_comment |-> FALSE, in0 |-> FALSE,
   in_string |-> FALSE, in_char_literal |-> FALSE, status |-> "scan",
   quote0 |-> FALSE]

\* the same entry with in_string and in_char_literal keeping the values the
\* previous call left in them (static instead of automatic locals)
ScanStartStatic(in_comment) ==
  [NoScan EXCEPT !.in_comment = in_comment, !.in0 = in_comment,
                 !.in_string = scan.in_string,
                 !.in_char_literal = scan.in_char_literal]

ScanStart(in_comment) ==
  [NoScan EXCEPT !.in_comment = in_comment, !.in0 = in_comment]

\* if (in_string || in_char_literal) if (*s == '\\' && *(s+1) != '\0')
\* the same test without the look at *(s+1)
IsEscapePairNoLookahead(line, st) ==
  (st.in_string \/ st.in_char_literal) /\ CharAt(line, st.s) = "\\"

IsEscapePair(line, st) ==
  /\ (st.in_string \/ st.in_char_literal)
  /\ CharAt(line, st.s) = "\\"
  /\ CharAt(line, st.s + 1) # NUL

\* if (*s == '/' && *(s+1) == '*')
IsCommentOpen(line, st) ==
  CharAt(line, st.s) = "/" /\ CharAt(line, st.s + 1) = "*"

\* if (*s == '/' && *(s+1) == '/')
IsLineComment(line, st) ==
  CharAt(line, st.s) = "/" /\ CharAt(line, st.s + 1) = "/"

\* One iteration of while(*s) { ... }
\* the same iteration with only the backslash of an escape pair copied
ScanStepHalfPair(line, st) ==
  LET c == CharAt(line, st.s) IN
  IF c = NUL THEN [st EXCEPT !.status = "end"]
  ELSE IF st.in_comment THEN
    IF c = "*" /\ CharAt(line, st.s + 1) = "/"
    THEN [st EXCEPT !.in_comment = FALSE, !.s = @ + COMMENT_START_LENGTH]
    ELSE [st EXCEPT !.s = @ + 1]
  ELSE IF IsCommentOpen(line, st)
    THEN [st EXCEPT !.in_comment = TRUE, !.s = @ + COMMENT_START_LENGTH]
  ELSE IF IsLineComment(line, st) THEN [st EXCEPT !.status = "cpp"]
  ELSE IF IsEscapePair(line, st)
    THEN [st EXCEPT !.out = Append(@, c), !.s = @ + 2]
  ELSE [st EXCEPT !.in_string = IF c = "\"" THEN ~@ ELSE @,
                  !.in_char_literal = IF c = "'" THEN ~@ ELSE @,
                  !.out = Append(@, c), !.s = @ + 1]

ScanStep(line, st) ==
  LET c == CharAt(line, st.s) IN
  IF c = NUL THEN [st EXCEPT !.status = "end"]
  ELSE IF st.in_comment THEN
    IF c = "*" /\ CharAt(line, st.s + 1) = "/"
    THEN [st EXCEPT !.in_comment = FALSE, !.s = @ + COMMENT_START_LENGTH]
    ELSE [st EXCEPT !.s = @ + 1]
  ELSE IF IsCommentOpen(line, st)
    THEN [st EXCEPT !.in_comment = TRUE, !.s = @ + COMMENT_START_LENGTH]
  ELSE IF IsLineComment(line, st) THEN [st EXCEPT !.status = "cpp"]
  ELSE IF IsEscapePair(line, st)
    THEN [st EXCEPT !.out = @ \o <<c, CharAt(line, st.s + 1)>>, !.s = @ + 2]
  ELSE [st EXCEPT !.in_string = IF c = "\"" THEN ~@ ELSE @,
                  !.in_char_literal = IF c = "'" THEN ~@ ELSE @,
                  !.out = Append(@, c), !.s = @ + 1]

\* The whole loop, run to its exit from scanner state st.
RECURSIVE ScanFrom(_, _)
ScanFrom(line, st) ==
  IF st.status # "scan" THEN st ELSE ScanFrom(line, ScanStep(line, st))

\* Sanitizing one line: the loop from a fresh scanner state.
Sanitize(line, in_comment) == ScanFrom(line, ScanStart(in_comment))

\* ------------------------------------------------------------ C library
\* isspace() in the "C" locale
IsSpace(c) == c \in {" ", "\t", "\n", "\r", "\f"}

\* isdigit()
IsDigit(c) == c \in {"0", "1", "2", "3", "4", "5", "6", "7", "8", "9"}

\* islower()
IsLower(c) ==
  c \in {"a","b","c","d","e","f","g","h","i","j","k","l","m",
         "n","o","p","q","r","s","t","u","v","w","x","y","z"}

\* pat occurs in line at 1-based position i
MatchAt(line, pat, i) ==
  /\ i >= 1 /\ i + Len(pat) - 1 <= Len(line)
  /\ line[i] = pat[1]
  /\ \A k \in 2..Len(pat) : line[i + k - 1] = pat[k]

\* strstr(): position of the first occurrence of pat in line, 0 for NULL
strstr(line, pat) ==
  LET hits == {i \in 1..Len(line) : MatchAt(line, pat, i)}
  IN  IF hits = {} THEN 0 ELSE CHOOSE i \in hits : \A j \in hits : i <= j

\* strchr(): position of the first c in line, 0 for NULL
strchr(line, c) ==
  LET hits == {i \in 1..Len(line) : line[i] = c}
  IN  IF hits = {} THEN 0 ELSE CHOOSE i \in hits : \A j \in hits : i <= j

\* strlen()
strlen(line) == Len(line)

\* the suffix of line that starts at position i (a char* into line)
From(line, i) == SubSeq(line, i, Len(line))

\* find_first_non_whitespace(): position of the first non-space character,
\* Len+1 (the terminator) when there is none
find_first_non_whitespace(str) ==
  LET hits == {i \in 1..Len(str) : ~IsSpace(str[i])}
  IN  IF hits = {} THEN Len(str) + 1 ELSE CHOOSE i \in hits : \A j \in hits : i <= j

\* strtok(): all tokens of line for the delimiter set delims, in order
RECURSIVE TokensFrom(_, _, _, _)
TokensFrom(line, delims, i, cur) ==
  IF i > Len(line) THEN (IF cur = <<>> THEN <<>> ELSE <<cur>>)
  ELSE IF line[i] \in delims
       THEN (IF cur = <<>> THEN <<>> ELSE <<cur>>) \o TokensFrom(line, delims, i + 1, <<>>)
       ELSE TokensFrom(line, delims, i + 1, Append(cur, line[i]))

strtok(line, delims) == TokensFrom(line, delims, 1, <<>>)

\* the element set of a table
Elems(table) == {table[i] : i \in 1..Len(table)}

\* some pattern of the table occurs in line (the strstr loops of is_c99_*)
AnyIn(line, table) ==
  \E i \in 1..Len(table) : \E p \in 1..Len(line) : MatchAt(line, table[i], p)

\* ------------------------------------------------------------ rule tables
\* static const char *ndk_reserved_words[]
ndk_reserved_words ==
  << <<"_","_","s","a","v","e","d","s">>,
     <<"_","_","s","a","v","e","_","d","s">>,
     <<"_","_","s","t","k","a","r","g","s">>,
     <<"_","_","a","m","i","g","a","i","n","t","e","r","r","u","p","t">> >>

\* static const char *c99_keywords[]
c99_keywords ==
  << <<"i","n","l","i","n","e">>,
     <<"r","e","s","t","r","i","c","t">>,
     <<"_","B","o","o","l">>,
     <<"_","C","o","m","p","l","e","x">>,
     <<"_","I","m","a","g","i","n","a","r","y">>,
     <<"t","y","p","e","o","f">> >>

\* static const char *c99_features[]
c99_features ==
  << <<"/","/">>,
     <<"/","/","*">>,
     <<"/","*","/","/">>,
     <<"/","/","*","/">>,
     <<"f","o","r"," ","(","i","n","t"," ">>,
     <<"f","o","r"," ","(","c","h","a","r"," ">>,
     <<"f","o","r"," ","(","l","o","n","g"," ">>,
     <<"s","t","r","u","c","t"," ","{"," ",".">>,
     <<"s","t","r","u","c","t"," ","{"," ",".","x">>,
     <<"s","t","r","u","c","t"," ","{"," ",".","y">>,
     <<"(","i","n","t","[","]",")","{">>,
     <<"(","c","h","a","r","[","]",")","{">>,
     <<"(","s","t","r","u","c","t"," ","P","o","i","n","t",")","{">>,
     <<"_","_","V","A","_","A","R","G","S","_","_">>,
     <<".",".",".">> >>

\* static const char *c99_designated_init_patterns[]
c99_designated_init_patterns ==
  << <<"="," ","{"," ",".">>,
     <<"="," ","{",".","x">>,
     <<"="," ","{",".","y">>,
     <<"="," ","{",".","z">>,
     <<"="," ","{",".","n","a","m","e">>,
     <<"="," ","{",".","d","a","t","a">>,
     <<"="," ","{"," ",".","x">>,
     <<"="," ","{"," ",".","y">>,
     <<"="," ","{"," ",".","z">>,
     <<"="," ","{"," ",".","n","a","m","e">>,
     <<"="," ","{"," ",".","d","a","t","a">>,
     <<"="," ","{"," ",".","i","d">>,
     <<"="," ","{"," ",".","t","y","p","e">>,
     <<"="," ","{"," ",".","s","i","z","e">>,
     <<"="," ","{"," ",".","c","o","u","n","t">>,
     <<"="," ","{"," ",".","l","e","n","g","t","h">>,
     <<"="," ","{"," ",".","w","i","d","t","h">>,
     <<"="," ","{"," ",".","h","e","i","g","h","t">>,
     <<"="," ","{"," ",".","d","e","p","t","h">>,
     <<"="," ","{"," ",".","f","l","a","g","s">>,
     <<"="," ","{"," ",".","s","t","a","t","u","s">> >>

\* static const char *c99_compound_literal_patterns[]
c99_compound_literal_patterns ==
  << <<"(","i","n","t","[","]",")","{">>,
     <<"(","c","h","a","r","[","]",")","{">>,
     <<"(","l","o","n","g","[","]",")","{">>,
     <<"(","f","l","o","a","t","[","]",")","{">>,
     <<"(","d","o","u","b","l","e","[","]",")">>,
     <<"(","u","n","s","i","g","n","e","d"," ","i","n","t","[","]",")","{">>,
     <<"(","u","n","s","i","g","n","e","d"," ","c","h","a","r","[","]",")","{">>,
     <<"(","u","n","s","i","g","n","e","d"," ","l","o","n","g","[","]",")">>,
     <<"(","s","t","r","u","c","t"," ">>,
     <<"(","u","n","i","o","n"," ">>,
     <<"(","e","n","u","m"," ">>,
     <<")","{">>,
     <<")","{">>,
     <<")","{">>,
     <<")","{">>,
     <<")","{">>,
     <<")","{">>,
     <<")","{">>,
     <<")","{">>,
     <<")","{">> >>

\* static const char *c99_variadic_macro_patterns[]
c99_variadic_macro_patterns ==
  << <<"_","_","V","A","_","A","R","G","S","_","_">>,
     <<".",".",".">>,
     <<"#","#","_","_","V","A","_","A","R","G","S","_","_">>,
     <<"_","_","V","A","_","O","P","T","_","_">>,
     <<"#","d","e","f","i","n","e">>,
     <<"#","#">>,
     <<"_","_","V","A","_","A","R","G","S","_","_">>,
     <<"_","_","V","A","_","O","P","T","_","_">> >>

\* static const char *c99_flexible_array_patterns[]
c99_flexible_array_patterns ==
  << <<"c","h","a","r"," ","d","a","t","a","[","]",";">>,
     <<"i","n","t"," ","i","t","e","m","s","[","]",";">>,
     <<"l","o","n","g"," ","v","a","l","u","e","s","[","]",";">>,
     <<"f","l","o","a","t"," ","s","a","m","p","l","e","s","[","]",";">>,
     <<"c","h","a","r"," ","n","a","m","e","[","]",";">>,
     <<"u","n","s","i","g","n","e","d"," ","c","h","a","r"," ","b","u","f","f","e","r","[","]",";">>,
     <<"u","n","s","i","g","n","e","d"," ","i","n","t"," ","f","l","a","g","s","[","]",";">>,
     <<"s","h","o","r","t"," ","i","n","d","i","c","e","s","[","]",";">>,
     <<"d","o","u","b","l","e"," ","m","e","a","s","u","r","e","m","e","n","t","s","[","]",";">>,
     <<"v","o","i","d"," ","*","p","o","i","n","t","e","r","s","[","]",";">> >>

\* static const char *c99_stdlib_functions[]
c99_stdlib_functions ==
  << <<"s","n","p","r","i","n","t","f">>,
     <<"v","s","n","p","r","i","n","t","f">>,
     <<"s","t","r","d","u","p">>,
     <<"s","t","r","n","d","u","p">>,
     <<"s","t","r","n","l","e","n">>,
     <<"s","t","r","l","c","p","y">>,
     <<"s","t","r","l","c","a","t">>,
     <<"a","s","p","r","i","n","t","f">>,
     <<"v","a","s","p","r","i","n","t","f">>,
     <<"o","p","e","n","_","m","e","m","s","t","r","e","a","m">>,
     <<"f","m","e","m","o","p","e","n">>,
     <<"g","e","t","l","i","n","e">>,
     <<"g","e","t","d","e","l","i","m">>,
     <<"s","t","r","t","o","k","_","r">>,
     <<"s","t","r","e","r","r","o","r","_","r">>,
     <<"m","e","m","s","e","t","_","s">>,
     <<"s","t","r","c","p","y","_","s">>,
     <<"s","t","r","c","a","t","_","s">>,
     <<"s","t","r","n","c","p","y","_","s">>,
     <<"s","t","r","n","c","a","t","_","s">>,
     <<"s","t","r","l","e","n","_","s">>,
     <<"s","t","r","c","m","p","_","s">>,
     <<"s","t","r","n","c","m","p","_","s">>,
     <<"s","t","r","c","h","r","_","s">>,
     <<"s","t","r","r","c","h","r","_","s">>,
     <<"s","t","r","s","t","r","_","s">>,
     <<"s","t","r","p","b","r","k","_","s">>,
     <<"s","t","r","s","p","n","_","s">>,
     <<"s","t","r","c","s","p","n","_","s">>,
     <<"s","t","r","t","o","k","_","s">>,
     <<"r","o","u","n","d">>,
     <<"l","r","o","u","n","d">>,
     <<"l","l","r","o","u","n","d">>,
     <<"t","r","u","n","c">>,
     <<"r","e","m","a","i","n","d","e","r">>,
     <<"f","m","a">>,
     <<"n","a","n">>,
     <<"a","t","o","l","l">>,
     <<"s","t","r","t","o","f">>,
     <<"s","t","r","t","o","l","d">>,
     <<"l","l","a","b","s">>,
     <<"s","t","r","t","o","i","m","a","x">>,
     <<"s","t","r","t","o","u","m","a","x">> >>

\* static const char *c99_header_files[]
c99_header_files ==
  << <<"<","s","t","d","i","n","t",".","h",">">>,
     <<"<","s","t","d","b","o","o","l",".","h",">">>,
     <<"<","c","o","m","p","l","e","x",".","h",">">>,
     <<"<","t","g","m","a","t","h",".","h",">">>,
     <<"<","f","e","n","v",".","h",">">>,
     <<"<","i","n","t","t","y","p","e","s",".","h",">">>,
     <<"<","w","c","h","a","r",".","h",">">>,
     <<"<","w","c","t","y","p","e",".","h",">">>,
     <<"<","u","c","h","a","r",".","h",">">>,
     <<"<","t","h","r","e","a","d","s",".","h",">">>,
     <<"<","s","t","d","a","t","o","m","i","c",".","h",">">>,
     <<"<","s","t","d","n","o","r","e","t","u","r","n",".","h",">">>,
     <<"<","s","t","d","a","l","i","g","n",".","h",">">>,
     <<"<","s","t","d","b","i","t",".","h",">">> >>

\* static const char *stdlib_functions[]
stdlib_functions ==
  << <<"p","r","i","n","t","f">>,
     <<"s","c","a","n","f">>,
     <<"m","a","l","l","o","c">>,
     <<"f","r","e","e">>,
     <<"s","t","r","c","p","y">>,
     <<"s","t","r","l","e","n">>,
     <<"f","o","p","e","n">>,
     <<"f","c","l","o","s","e">>,
     <<"f","g","e","t","s">>,
     <<"f","p","u","t","s">>,
     <<"f","r","e","a","d">>,
     <<"f","w","r","i","t","e">>,
     <<"f","s","e","e","k">>,
     <<"f","t","e","l","l">>,
     <<"r","e","w","i","n","d">>,
     <<"f","e","o","f">>,
     <<"f","e","r","r","o","r">>,
     <<"c","l","e","a","r","e","r","r">>,
     <<"s","t","r","c","a","t">>,
     <<"s","t","r","c","m","p">>,
     <<"s","t","r","n","c","m","p">>,
     <<"s","t","r","n","c","p","y">>,
     <<"s","t","r","n","c","a","t">>,
     <<"s","t","r","c","h","r">>,
     <<"s","t","r","r","c","h","r">>,
     <<"s","t","r","s","t","r">>,
     <<"s","t","r","t","o","k">>,
     <<"s","t","r","e","r","r","o","r">>,
     <<"s","t","r","d","u","p">>,
     <<"s","t","r","n","d","u","p">>,
     <<"s","t","r","n","l","e","n">>,
     <<"s","t","r","l","c","p","y">>,
     <<"s","t","r","l","c","a","t">>,
     <<"s","p","r","i","n","t","f">>,
     <<"v","s","p","r","i","n","t","f">>,
     <<"s","n","p","r","i","n","t","f">>,
     <<"v","s","n","p","r","i","n","t","f">>,
     <<"s","s","c","a","n","f">>,
     <<"f","s","c","a","n","f">>,
     <<"c","a","l","l","o","c">>,
     <<"r","e","a","l","l","o","c">>,
     <<"m","e","m","c","p","y">>,
     <<"m","e","m","m","o","v","e">>,
     <<"m","e","m","c","m","p">>,
     <<"m","e","m","s","e","t">>,
     <<"m","e","m","c","h","r">>,
     <<"a","b","s">>,
     <<"l","a","b","s">>,
     <<"l","l","a","b","s">>,
     <<"d","i","v">>,
     <<"l","d","i","v">>,
     <<"l","l","d","i","v">>,
     <<"r","a","n","d">>,
     <<"s","r","a","n","d">>,
     <<"a","t","o","i">>,
     <<"a","t","o","l">>,
     <<"a","t","o","l","l">>,
     <<"s","t","r","t","o","l">>,
     <<"s","t","r","t","o","u","l">>,
     <<"s","t","r","t","o","l","l">>,
     <<"s","t","r","t","o","u","l","l">>,
     <<"e","x","i","t">>,
     <<"a","b","o","r","t">>,
     <<"a","t","e","x","i","t">>,
     <<"s","y","s","t","e","m">>,
     <<"g","e","t","e","n","v">>,
     <<"s","e","t","e","n","v">>,
     <<"u","n","s","e","t","e","n","v">>,
     <<"t","i","m","e">>,
     <<"c","t","i","m","e">>,
     <<"g","m","t","i","m","e">>,
     <<"l","o","c","a","l","t","i","m","e">>,
     <<"m","k","t","i","m","e">>,
     <<"s","t","r","f","t","i","m","e">>,
     <<"a","s","c","t","i","m","e">>,
     <<"i","s","a","l","p","h","a">>,
     <<"i","s","d","i","g","i","t">>,
     <<"i","s","a","l","n","u","m">>,
     <<"i","s","s","p","a","c","e">>,
     <<"i","s","u","p","p","e","r">>,
     <<"i","s","l","o","w","e","r">>,
     <<"t","o","u","p","p","e","r">>,
     <<"t","o","l","o","w","e","r">>,
     <<"s","i","n">>,
     <<"c","o","s">>,
     <<"t","a","n">>,
     <<"a","s","i","n">>,
     <<"a","c","o","s">>,
     <<"a","t","a","n">>,
     <<"a","t","a","n","2">>,
     <<"s","i","n","h">>,
     <<"c","o","s","h">>,
     <<"t","a","n","h">>,
     <<"e","x","p">>,
     <<"l","o","g">>,
     <<"l","o","g","1","0">>,
     <<"p","o","w">>,
     <<"s","q","r","t">>,
     <<"c","e","i","l">>,
     <<"f","l","o","o","r">>,
     <<"f","a","b","s">>,
     <<"f","m","o","d">>,
     <<"s","e","t","j","m","p">>,
     <<"l","o","n","g","j","m","p">>,
     <<"s","i","g","n","a","l">>,
     <<"r","a","i","s","e">>,
     <<"q","s","o","r","t">>,
     <<"b","s","e","a","r","c","h">> >>

\* static const char *amiga_functions[]
amiga_functions ==
  << <<"O","p","e","n","L","i","b","r","a","r","y">>,
     <<"C","l","o","s","e","L","i","b","r","a","r","y">>,
     <<"A","l","l","o","c","M","e","m">>,
     <<"F","r","e","e","M","e","m">>,
     <<"C","r","e","a","t","e","M","s","g","P","o","r","t">>,
     <<"D","e","l","e","t","e","M","s","g","P","o","r","t">>,
     <<"D","o","I","O">>,
     <<"O","p","e","n","D","e","v","i","c","e">>,
     <<"C","l","o","s","e","D","e","v","i","c","e">>,
     <<"R","e","a","d","A","r","g","s">>,
     <<"O","p","e","n">>,
     <<"C","l","o","s","e">>,
     <<"R","e","a","d">>,
     <<"W","r","i","t","e">> >>

\* static const char *memsafe_unsafe_functions[]
memsafe_unsafe_functions ==
  << <<"s","t","r","c","p","y">>,
     <<"s","t","r","c","a","t">>,
     <<"s","p","r","i","n","t","f">>,
     <<"g","e","t","s">>,
     <<"s","c","a","n","f">>,
     <<"f","s","c","a","n","f">>,
     <<"s","s","c","a","n","f">>,
     <<"s","t","r","t","o","k">>,
     <<"s","t","r","e","r","r","o","r">>,
     <<"t","m","p","n","a","m">>,
     <<"m","k","t","e","m","p">>,
     <<"r","e","a","l","p","a","t","h">>,
     <<"v","s","p","r","i","n","t","f">>,
     <<"a","t","o","i">>,
     <<"a","t","o","l">>,
     <<"a","t","o","f">>,
     <<"g","e","t","e","n","v">> >>

\* static const char *sasc_keywords[]
sasc_keywords ==
  << <<"_","_","a","m","i","g","a","i","n","t","e","r","r","u","p","t">>,
     <<"_","_","s","t","k","a","r","g","s">>,
     <<"_","_","a","t","t","r","i","b","u","t","e","_","_">>,
     <<"_","_","b","u","i","l","t","i","n","_">>,
     <<"_","_","v","o","l","a","t","i","l","e","_","_">>,
     <<"_","_","c","o","n","s","t","_","_">>,
     <<"_","_","r","e","s","t","r","i","c","t","_","_">> >>

\* static const char *vbcc_keywords[]
vbcc_keywords ==
  << <<"_","_","s","a","v","e","d","s">>,
     <<"_","_","s","a","v","e","_","d","s">>,
     <<"_","_","s","t","k","a","r","g","s">>,
     <<"_","_","a","t","t","r","i","b","u","t","e","_","_">>,
     <<"_","_","b","u","i","l","t","i","n","_">>,
     <<"_","_","v","o","l","a","t","i","l","e","_","_">>,
     <<"_","_","c","o","n","s","t","_","_">>,
     <<"_","_","r","e","s","t","r","i","c","t","_","_">> >>

\* ------------------------------------------------------ diagnostics sink
\* The global error table as a record g:
\*   error_count  the C variable,
\*   errors       the entries written into errors[] (since the run began),
\*   notices      how often the "Maximum error count reached" line was printed,
\*   calls        every submission, stored or dropped (history).
\* An entry is kept without its column and excerpt.
NewEntry(line, col, type, msg) ==
  [line_number |-> line, type |-> type, message |-> msg]

AddErrorCountsOverflow(g, line, col, type, msg) ==
  LET e == NewEntry(line, col, type, msg) IN
  IF g.error_count >= MAX_ERRORS
  THEN [g EXCEPT !.notices = @ + 1, !.error_count = @ + 1,
                 !.calls = Append(@, e)]
  ELSE [g EXCEPT !.errors = Append(@, e), !.error_count = @ + 1,
                 !.calls = Append(@, e)]

add_error_with_excerpt(g, line, col, type, msg) ==
  LET e == NewEntry(line, col, type, msg) IN
  IF g.error_count >= MAX_ERRORS
  THEN IF g.error_count = MAX_ERRORS
       THEN [g EXCEPT !.notices = @ + 1, !.error_count = @ + 1,
                      !.calls = Append(@, e)]
       ELSE [g EXCEPT !.calls = Append(@, e)]
  ELSE [g EXCEPT !.errors = Append(@, e), !.error_count = @ + 1,
                 !.calls = Append(@, e)]

add_error(g, line, col, type, msg) ==
  add_error_with_excerpt(g, line, col, type, msg)

add_codex_comment(g, line, comment) ==
  LET e == NewEntry(line, 1, "ERROR_COMMENT", comment) IN
  IF g.error_count >= MAX_ERRORS
  THEN IF g.error_count = MAX_ERRORS
       THEN [g EXCEPT !.notices = @ + 1, !.error_count = @ + 1,
                      !.calls = Append(@, e)]
       ELSE [g EXCEPT !.calls = Append(@, e)]
  ELSE [g EXCEPT !.errors = Append(@, e), !.error_count = @ + 1,
                 !.calls = Append(@, e)]

\* A checker that reports several findings calls add_error once per finding,
\* in source order: cands is the sequence of [c, type, msg] of its if-blocks.
RECURSIVE SubmitAll(_, _, _, _)
SubmitAll(g, line_num, cands, i) ==
  IF i > Len(cands) THEN g
  ELSE SubmitAll(IF cands[i].c
                 THEN add_error(g, line_num, 1, cands[i].type, cands[i].msg)
                 ELSE g,
                 line_num, cands, i + 1)

\* is_declaration_keyword()
decl_keywords ==
  { <<"a","u","t","o">>, <<"c","h","a","r">>, <<"c","o","n","s","t">>, <<"d","o","u","b","l","e">>, <<"e","n","u","m">>, <<"e","x","t","e","r","n">>, <<"f","l","o","a","t">>, <<"i","n","t">>,
    <<"l","o","n","g">>, <<"r","e","g","i","s","t","e","r">>, <<"s","h","o","r","t">>, <<"s","i","g","n","e","d">>, <<"s","t","a","t","i","c">>, <<"s","t","r","u","c","t">>, <<"t","y","p","e","d","e","f">>,
    <<"u","n","i","o","n">>, <<"u","n","s","i","g","n","e","d">>, <<"v","o","i","d">>, <<"v","o","l","a","t","i","l","e">> }

is_declaration_keyword(word) == word \in decl_keywords

\* ---------------------------------------------------------------- inputs
\* The lines of the files of Spec: brace, statement and declaration lines.
BlockLines ==
  { <<"{">>,
    <<"}">>,
    <<"f","(",")",";">>,
    <<"i","n","t"," ","x",";">>,
    <<"i","n","t"," ","f","(",")",";">>,
    <<"i","n","t"," ","f","(",")",";"," ","}">>,
    <<"i","f"," ","(","n",">","0",")"," ","{">>,
    <<"i","n","t"," ","y",";","/","*","$","C","O","D","E","X",":","w","*","/">>,
    <<"}"," ","w","h","i","l","e"," ","(","n",">","0",")",";"," ","/","/"," ","c">> }

\* the lines of the files of DepthSpec: blocks nested up to the depth bound
DepthLines ==
  { [i \in 1..MAX_BLOCK_DEPTH \div 2 |-> "{"],
    <<"{">>,
    <<"}">>,
    <<"f","(",")",";">>,
    <<"i","n","t"," ","x",";">> }

\* the lines of the two files of FileSpec
FileLines ==
  { <<"/","*">>,
    <<"{">>,
    <<"F","o","r","b","i","d","(",")",";">>,
    <<"/","*","$","C","O","D","E","X",":","w","*","/">>,
    <<"f","(",")",";","/","*","$","C","O","D","E","X",":","w","*","/">> }

\* the lines of the files of PairSpec
PairLines ==
  { <<"F","o","r","b","i","d","(",")",";">>,
    <<"P","e","r","m","i","t","(",")",";">>,
    <<"P","e","r","m","i","t","(",")",";"," ","F","o","r","b","i","d","(",")",";">> }

\* the line of the files of ModeSpec
NestLines ==
  { <<"F","o","r","b","i","d","(",")",";">>,
    <<"P","e","r","m","i","t","(",")",";">>,
    <<"F","o","r","b","i","d","(",")",";"," ","P","e","r","m","i","t","(",")",";">> }

CallLines ==
  { <<"F","o","r","b","i","d","(",")",";">>,
    <<"P","e","r","m","i","t","(",")",";">>,
    <<"F","o","r","b","i","d","(",")",";"," ","P","e","r","m","i","t","(",")",";">>,
    <<"P","e","r","m","i","t","(",")",";"," ","F","o","r","b","i","d","(",")",";">>,
    <<"F","o","r","b","i","d","(",")",";"," ","F","o","r","b","i","d"," ","(",")",";">> }

FreeLines ==
  { <<"{">>,
    <<"f","(",")",";">>,
    <<"i","n","t"," ","x",";">> }

ModeLines == { <<"f","(",")",";">> }

\* the lines of the file of OverflowSpec
OverflowLines ==
  { <<"/","*">>,
    <<"F","o","r","b","i","d","(",")",";">>,
    <<"f","(",")",";","/","*","$","C","O","D","E","X",":","w","*","/">> }

\* The lines of the files of ScanSpec: every short line over the characters
\* the scanner distinguishes.
ScanAlphabet == {"/", "*", "\"", "'", "\\"}

ShortLines(n) == UNION {[1..k -> ScanAlphabet] : k \in 0..n}

\* ... and the lines that begin with a string literal holding an
\* apostrophe
ScanLines ==
  ShortLines(MaxScanLen)
    \cup {<<"\"", "'", "\"">> \o t : t \in ShortLines(MaxScanLen)}

\* the sanitized texts the block lines can produce: a block line yields one
\* of its prefixes (a scan line yields a scan line)
BlockTexts ==
  UNION {{SubSeq(l, 1, k) : k \in 0..Len(l)} :
           l \in BlockLines \cup DepthLines \cup FileLines \cup PairLines
                   \cup ModeLines \cup OverflowLines \cup NestLines
                   \cup CallLines \cup FreeLines}

\* ------------------------------------------------------- rule checkers
\* Each checker maps the error table g to the table after its add_error
\* calls for the sanitized line `line`.
Has(line, pat) == \E p \in 1..Len(line) : MatchAt(line, pat, p)

Cand(c, type, msg) == [c |-> c, type |-> type, msg |-> msg]

WS == {" ", "\t", "\n", "\r"}
WSPunct == {" ", "\t", "\n", "\r", "*", "(", ")", ";", ","}

is_ndk_reserved_word(word) == word \in Elems(ndk_reserved_words)
is_c99_keyword(word) == AnyIn(word, c99_keywords)
is_c99_feature(line) == AnyIn(line, c99_features)
is_c99_designated_init(line) == AnyIn(line, c99_designated_init_patterns)
is_c99_compound_literal(line) == AnyIn(line, c99_compound_literal_patterns)
is_c99_variadic_macro(line) == AnyIn(line, c99_variadic_macro_patterns)
is_c99_flexible_array(line) == AnyIn(line, c99_flexible_array_patterns)
is_c99_stdlib_function(line) == AnyIn(line, c99_stdlib_functions)
is_c99_header_file(line) == AnyIn(line, c99_header_files)
is_sasc_keyword(word) == word \in Elems(sasc_keywords)
is_vbcc_keyword(word) == word \in Elems(vbcc_keywords)
is_memsafe_unsafe_function(word) == word \in Elems(memsafe_unsafe_functions)
is_stdlib_function(word) == word \in Elems(stdlib_functions)
is_amiga_function(word) == word \in Elems(amiga_functions)

c89_findings(line, sasc) ==
  LET for_pos == strstr(line, <<"f","o","r">>)
      int_pos == strstr(line, <<"i","n","t">>)
      type_pos ==
        IF Has(line, <<"c","h","a","r"," ">>) THEN strstr(line, <<"c","h","a","r"," ">>)
        ELSE IF Has(line, <<"l","o","n","g"," ">>) THEN strstr(line, <<"l","o","n","g"," ">>)
        ELSE IF Has(line, <<"s","h","o","r","t"," ">>) THEN strstr(line, <<"s","h","o","r","t"," ">>)
        ELSE IF Has(line, <<"f","l","o","a","t"," ">>) THEN strstr(line, <<"f","l","o","a","t"," ">>)
        ELSE IF Has(line, <<"d","o","u","b","l","e"," ">>) THEN strstr(line, <<"d","o","u","b","l","e"," ">>)
        ELSE strstr(line, <<"u","n","s","i","g","n","e","d"," ">>)
      forMsg == "Variable declaration in for loop not allowed in C89"
  IN   << Cand(Has(line, <<"/","/">>) /\ ~sasc, "ERROR_SYNTAX",
               "C++ comments ('//') are not allowed in C89"),
          Cand(Has(line, <<"i","n","l","i","n","e">>), "ERROR_SYNTAX",
               "'inline' keyword is not available in C89"),
          Cand(Has(line, <<"_","B","o","o","l">>), "ERROR_SYNTAX",
               "_Bool type is not available in C89"),
          Cand(Has(line, <<"r","e","s","t","r","i","c","t">>), "ERROR_SYNTAX",
               "'restrict' keyword is not available in C89"),
          Cand(for_pos # 0 /\ int_pos # 0 /\ int_pos > for_pos,
               "ERROR_SYNTAX", forMsg),
          Cand(for_pos # 0 /\ type_pos # 0 /\ type_pos > for_pos,
               "ERROR_SYNTAX", forMsg),
          Cand(is_c99_designated_init(line), "ERROR_SYNTAX",
               "C99 designated initializer found - not available in C89"),
          Cand(is_c99_compound_literal(line), "ERROR_SYNTAX",
               "C99 compound literal found - not available in C89"),
          Cand(is_c99_variadic_macro(line), "ERROR_SYNTAX",
               "C99 variadic macro found - not available in C89"),
          Cand(is_c99_flexible_array(line), "ERROR_SYNTAX",
               "C99 flexible array member found - not available in C89"),
          Cand(is_c99_stdlib_function(line), "ERROR_SYNTAX",
               "C99+ standard library function found - not available in C89"),
          Cand(is_c99_header_file(line), "ERROR_SYNTAX",
               "C99+ header file found - not available in C89") >>

c99_findings(line) ==
    << Cand(is_c99_keyword(line), "ERROR_WARNING",
            "C99 keyword detected - ensure your compiler supports C99"),
       Cand(is_c99_feature(line), "ERROR_WARNING",
            "C99 feature detected - ensure your compiler supports C99"),
       Cand(is_c99_designated_init(line), "ERROR_WARNING",
            "C99 designated initializer detected - ensure your compiler supports C99"),
       Cand(is_c99_compound_literal(line), "ERROR_WARNING",
            "C99 compound literal detected - ensure your compiler supports C99"),
       Cand(is_c99_variadic_macro(line), "ERROR_WARNING",
            "C99 variadic macro detected - ensure your compiler supports C99"),
       Cand(is_c99_flexible_array(line), "ERROR_WARNING",
            "C99 flexible array member detected - ensure your compiler supports C99"),
       Cand(is_c99_stdlib_function(line), "ERROR_WARNING",
            "C99+ standard library function detected - ensure your compiler supports C99"),
       Cand(is_c99_header_file(line), "ERROR_WARNING",
            "C99+ header file detected - ensure your compiler supports C99") >>

\* The findings of the two standards checkers above, tabulated once per
\* sanitized text.
FindingsOf(l) ==
  [c89 |-> c89_findings(l, FALSE),
   c89_sasc |-> c89_findings(l, TRUE),
   c99 |-> c99_findings(l)]

BlockFindings == [l \in BlockTexts |-> FindingsOf(l)] @@ <<>>

ScanFindings == [l \in ScanLines |-> FindingsOf(l)] @@ <<>>

StandardsFindings(l) ==
  IF l \in BlockTexts THEN BlockFindings[l]
  ELSE IF l \in ScanLines THEN ScanFindings[l]
  ELSE FindingsOf(l)

check_c89_standards_any_mode(g, line, line_num, sasc) ==
  SubmitAll(g, line_num, StandardsFindings(line).c89, 1)

check_c89_standards(g, line, line_num, sasc) ==
  SubmitAll(g, line_num,
            IF sasc THEN StandardsFindings(line).c89_sasc
            ELSE StandardsFindings(line).c89, 1)

check_c99_standards(g, line, line_num) ==
  SubmitAll(g, line_num, StandardsFindings(line).c99, 1)

\* the token strtok(NULL, delims2) returns after strtok(line, delims1)
\* returned its first token; <<>> for NULL
SecondToken(line, delims1, delims2) ==
  LET b == CHOOSE i \in 1..Len(line) + 1 :
             /\ i = Len(line) + 1 \/ line[i] \notin delims1
             /\ \A j \in 1..i - 1 : line[j] \in delims1
      e == CHOOSE i \in b..Len(line) + 1 :
             /\ i = Len(line) + 1 \/ line[i] \in delims1
             /\ \A j \in b..i - 1 : line[j] \notin delims1
      rest == strtok(From(line, e + 1), delims2)
  IN  IF rest = <<>> THEN <<>> ELSE rest[1]

check_amiga_standards(g, line, line_num) ==
  LET H(p) == Has(line, p)
      token == strtok(line, WS)
      func_name == SecondToken(line, WS, WS \cup {"*", "("})
      W == "ERROR_WARNING"
  IN SubmitAll(g, line_num,
    << Cand((H(<<"c","h","a","r"," ","*">>) /\ ~H(<<"\"","c","h","a","r"," ","*">>)) \/ (H(<<"c","h","a","r","*">>) /\ ~H(<<"\"","c","h","a","r","*">>)), W,
            "Use Amiga types (UBYTE* or STRPTR) instead of char*"),
       Cand((H(<<"l","o","n","g"," ">>) /\ ~H(<<"\"","l","o","n","g"," ">>)) \/ (H(<<"l","o","n","g","\t">>) /\ ~H(<<"\"","l","o","n","g","\t">>)), W,
            "Use Amiga types (LONG) instead of long"),
       Cand((H(<<"i","n","t"," ">>) /\ ~H(<<"\"","i","n","t"," ">>)) \/ (H(<<"i","n","t","\t">>) /\ ~H(<<"\"","i","n","t","\t">>)), W,
            "Use Amiga types (ULONG) instead of int"),
       Cand((H(<<"s","h","o","r","t"," ">>) /\ ~H(<<"\"","s","h","o","r","t"," ">>)) \/ (H(<<"s","h","o","r","t","\t">>) /\ ~H(<<"\"","s","h","o","r","t","\t">>)), W,
            "Use Amiga types (WORD) instead of short"),
       Cand(\/ H(<<"u","n","s","i","g","n","e","d"," ","l","o","n","g">>) /\ ~H(<<"\"","u","n","s","i","g","n","e","d"," ","l","o","n","g">>)
            \/ H(<<"u","n","s","i","g","n","e","d"," ","c","h","a","r">>) /\ ~H(<<"\"","u","n","s","i","g","n","e","d"," ","c","h","a","r">>)
            \/ H(<<"u","n","s","i","g","n","e","d"," ","s","h","o","r","t">>) /\ ~H(<<"\"","u","n","s","i","g","n","e","d"," ","s","h","o","r","t">>)
            \/ H(<<"u","n","s","i","g","n","e","d"," ","i","n","t">>) /\ ~H(<<"\"","u","n","s","i","g","n","e","d"," ","i","n","t">>), "ERROR_STYLE",
            "Use Amiga primitive types (ULONG, UBYTE, UWORD) instead of standard C types"),
       Cand(H(<<"U","S","H","O","R","T">>) \/ H(<<"u","s","h","o","r","t">>), W, "USHORT is deprecated - use UWORD instead"),
       Cand(H(<<"S","H","O","R","T">>) \/ H(<<"s","h","o","r","t">>), W, "SHORT is deprecated - use WORD instead"),
       Cand(H(<<"C","O","U","N","T">>) \/ H(<<"c","o","u","n","t">>), W, "COUNT is deprecated - use WORD instead"),
       Cand(H(<<"U","C","O","U","N","T">>) \/ H(<<"u","c","o","u","n","t">>), W, "UCOUNT is deprecated - use UWORD instead"),
       Cand(H(<<"C","P","T","R">>) \/ H(<<"c","p","t","r">>), W, "CPTR is deprecated - use ULONG instead"),
       Cand(H(<<"L","O","N","G","B","I","T","S">>) \/ H(<<"l","o","n","g","b","i","t","s">>), W,
            "LONGBITS is for bit manipulation - consider if you really need this"),
       Cand(H(<<"W","O","R","D","B","I","T","S">>) \/ H(<<"w","o","r","d","b","i","t","s">>), W,
            "WORDBITS is for bit manipulation - consider if you really need this"),
       Cand(H(<<"B","Y","T","E","B","I","T","S">>) \/ H(<<"b","y","t","e","b","i","t","s">>), W,
            "BYTEBITS is for bit manipulation - consider if you really need this"),
       Cand(H(<<"R","P","T","R">>) \/ H(<<"r","p","t","r">>), W,
            "RPTR is for relative pointers - consider if you really need this"),
       Cand(H(<<"f","l","o","a","t"," ">>) \/ H(<<"f","l","o","a","t","\t">>), W, "Use Amiga types (FLOAT) instead of float"),
       Cand(H(<<"d","o","u","b","l","e"," ">>) \/ H(<<"d","o","u","b","l","e","\t">>), W, "Use Amiga types (DOUBLE) instead of double"),
       Cand(H(<<"b","o","o","l"," ">>) \/ H(<<"b","o","o","l","\t">>), W, "Use Amiga types (BOOL) instead of bool"),
       Cand(H(<<"v","o","i","d"," ","*">>) \/ H(<<"v","o","i","d","*">>), W,
            "Consider using Amiga types (APTR) instead of void* for untyped pointers"),
       Cand(H(<<"c","o","n","s","t"," ","c","h","a","r"," ","*">>) \/ H(<<"c","o","n","s","t"," ","c","h","a","r","*">>), W,
            "Use Amiga types (CONST_STRPTR) instead of const char*"),
       Cand(H(<<"u","n","s","i","g","n","e","d"," ","c","h","a","r"," ","*">>) \/ H(<<"u","n","s","i","g","n","e","d"," ","c","h","a","r","*">>), W,
            "Use Amiga types (STRPTR) instead of unsigned char* for strings"),
       Cand(/\ token # <<>> /\ strchr(line, "(") # 0 /\ func_name # <<>>
            /\ ~is_stdlib_function(func_name) /\ ~is_amiga_function(func_name)
            /\ IsLower(func_name[1]), W, "Use PascalCase function names"),
       Cand(H(<<"*">>) /\ H(<<"="," ","0">>) /\ ~H(<<"=","="," ","0">>), "ERROR_STYLE",
            "Assigning 0 to a pointer. Use the Amiga constant NULL instead.") >>, 1)

check_ndk_standards(g, line, line_num) ==
  LET toks == strtok(line, WS)
  IN SubmitAll(g, line_num,
       [i \in 1..Len(toks) |->
          Cand(is_ndk_reserved_word(toks[i]), "ERROR_COMPILER",
               "NDK reserved word found - use universal syntax instead")], 1)

\* check_sasc_standards, check_vbcc_standards, check_dice_standards and
\* check_memsafe_standards report the first token found in their table and
\* return.
FirstTokenChecker(g, line, line_num, table, type, msg) ==
  LET toks == strtok(line, WSPunct)
  IN  IF \E i \in 1..Len(toks) : toks[i] \in Elems(table)
      THEN add_error(g, line_num, 1, type, msg)
      ELSE g

check_sasc_standards(g, line, line_num) ==
  FirstTokenChecker(g, line, line_num, sasc_keywords, "ERROR_COMPILER",
                    "Keyword is incompatible with SAS/C")

check_vbcc_standards(g, line, line_num) ==
  FirstTokenChecker(g, line, line_num, vbcc_keywords, "ERROR_COMPILER",
                    "Keyword is incompatible with VBCC")

check_dice_standards(g, line, line_num) ==
  FirstTokenChecker(g, line, line_num, ndk_reserved_words, "ERROR_COMPILER",
                    "Keyword is DICE-incompatible")

check_memsafe_standards(g, line, line_num) ==
  FirstTokenChecker(g, line, line_num, memsafe_unsafe_functions, "ERROR_WARNING",
                    "Memory-unsafe function found")

\* check_for_magic_numbers(): the first digit outside a "..." string that
\* directly follows one of + - * / % = ( < > is reported; a digit after
\* ',' or '{' is not.
QuotesBefore(line, p) == Cardinality({i \in 1..p : line[i] = "\""})

\* the position the while loop of check_for_magic_numbers reports, 0 when
\* it reports none
magic_number_pos(line) ==
  LET hits == {p \in 2..Len(line) :
                 /\ QuotesBefore(line, p) % 2 = 0
                 /\ IsDigit(line[p])
                 /\ line[p - 1] \in {"+", "-", "*", "/", "%", "=", "(", "<", ">"}}
  IN  IF hits = {} THEN 0 ELSE CHOOSE p \in hits : \A q \in hits : p <= q

\* strstr(line, "Forbid(") and, when that is NULL, strstr(line, "Forbid (")
FindCall(line, nospace, space) ==
  IF strstr(line, nospace) # 0 THEN strstr(line, nospace) ELSE strstr(line, space)

\* the three shapes the declaration-placement section distinguishes
\*   "decl"   first word a declaration keyword and a ';' with no '(' before it
\*   "proto"  first word a declaration keyword, any other line
\*   "label"  case / default / a line starting with '}'
\*   "stmt"   everything else
LineShapeNoParen(trimmed_line) ==
  LET first_word == strtok(trimmed_line, WS)[1]
      semicolon_pos == strchr(trimmed_line, ";")
  IN  IF is_declaration_keyword(first_word)
      THEN IF semicolon_pos # 0 THEN "decl" ELSE "proto"
      ELSE IF first_word # <<"c","a","s","e">> /\ first_word # <<"d","e","f","a","u","l","t">> /\ trimmed_line[1] # "}"
           THEN "stmt" ELSE "label"

LineShape(trimmed_line) ==
  LET first_word == strtok(trimmed_line, WS)[1]
      paren_pos == strchr(trimmed_line, "(")
      semicolon_pos == strchr(trimmed_line, ";")
  IN  IF is_declaration_keyword(first_word)
      THEN IF semicolon_pos # 0 /\ (paren_pos = 0 \/ semicolon_pos < paren_pos)
           THEN "decl" ELSE "proto"
      ELSE IF first_word # <<"c","a","s","e">> /\ first_word # <<"d","e","f","a","u","l","t">> /\ trimmed_line[1] # "}"
           THEN "stmt" ELSE "label"

\* What the remaining checks of process_line read off a sanitized text,
\* tabulated once per text: the magic-number position, the positions of
\* the Forbid() and Permit() calls, the start of trimmed_line and the shape
\* of the line ("blank" when trimmed_line is empty).
FactsOf(l) ==
     LET t == find_first_non_whitespace(l) IN
     [magic      |-> magic_number_pos(l),
      forbid_pos |-> FindCall(l, <<"F","o","r","b","i","d","(">>, <<"F","o","r","b","i","d"," ","(">>),
      permit_pos |-> FindCall(l, <<"P","e","r","m","i","t","(">>, <<"P","e","r","m","i","t"," ","(">>),
      trimmed    |-> t,
      shape      |-> IF t = Len(l) + 1 THEN "blank" ELSE LineShape(From(l, t))]

BlockFacts == [l \in BlockTexts |-> FactsOf(l)] @@ <<>>

ScanFacts == [l \in ScanLines |-> FactsOf(l)] @@ <<>>

LineFacts(l) ==
  IF l \in BlockTexts THEN BlockFacts[l]
  ELSE IF l \in ScanLines THEN ScanFacts[l]
  ELSE FactsOf(l)

check_for_magic_numbers(g, line, line_num) ==
  IF LineFacts(line).magic = 0 THEN g
  ELSE add_error_with_excerpt(g, line_num, LineFacts(line).magic, "ERROR_STYLE",
                              "Magic number found. Consider using a named constant.")

\* ------------------------------------------------------ pairing monitor
\* check_forbid_permit_pairs(): r = [ps |-> parse_state, g |-> error table]
ForbidEventRestart(r, pos, line_num) ==
  LET ps1 == [r.ps EXCEPT !.forbid_count = @ + 1] IN
  IF ps1.forbid_active
  THEN [ps |-> [ps1 EXCEPT !.forbid_line = line_num],
        g |-> add_error_with_excerpt(r.g, line_num, pos, "ERROR_WARNING",
                "Forbid() called without matching Permit() from previous Forbid()")]
  ELSE [ps |-> [ps1 EXCEPT !.forbid_active = TRUE, !.forbid_line = line_num],
        g |-> add_error_with_excerpt(r.g, line_num, pos, "ERROR_WARNING",
                "Forbid() usage detected")]

ForbidEvent(r, pos, line_num) ==
  LET ps1 == [r.ps EXCEPT !.forbid_count = @ + 1] IN
  IF ps1.forbid_active
  THEN [ps |-> ps1,
        g |-> add_error_with_excerpt(r.g, line_num, pos, "ERROR_WARNING",
                "Forbid() called without matching Permit() from previous Forbid()")]
  ELSE [ps |-> [ps1 EXCEPT !.forbid_active = TRUE, !.forbid_line = line_num],
        g |-> add_error_with_excerpt(r.g, line_num, pos, "ERROR_WARNING",
                "Forbid() usage detected")]

TooFar(line_distance) == line_distance > 5

\* the Permit() half of the "Forbid() comes first" branch: no diagnostic
\* when no section is active
PermitAfterForbidKeepsOpen(r, pos, line_num) ==
  LET ps1 == [r.ps EXCEPT !.permit_count = @ + 1] IN
  IF ps1.forbid_active
  THEN [ps |-> [ps1 EXCEPT !.permit_line = line_num],
        g |-> IF TooFar(line_num - ps1.forbid_line)
              THEN add_error_with_excerpt(r.g, line_num, pos, "ERROR_WARNING",
                     "Too many lines (>5) between Forbid() and Permit()")
              ELSE r.g]
  ELSE [ps |-> ps1, g |-> r.g]

PermitAfterForbid(r, pos, line_num) ==
  LET ps1 == [r.ps EXCEPT !.permit_count = @ + 1] IN
  IF ps1.forbid_active
  THEN [ps |-> [ps1 EXCEPT !.permit_line = line_num, !.forbid_active = FALSE],
        g |-> IF TooFar(line_num - ps1.forbid_line)
              THEN add_error_with_excerpt(r.g, line_num, pos, "ERROR_WARNING",
                     "Too many lines (>5) between Forbid() and Permit()")
              ELSE r.g]
  ELSE [ps |-> ps1, g |-> r.g]

PermitEvent(r, pos, line_num) ==
  LET ps1 == [r.ps EXCEPT !.permit_count = @ + 1] IN
  IF ~ps1.forbid_active
  THEN [ps |-> ps1,
        g |-> add_error_with_excerpt(r.g, line_num, pos, "ERROR_WARNING",
                "Permit() called without matching Forbid()")]
  ELSE [ps |-> [ps1 EXCEPT !.permit_line = line_num, !.forbid_active = FALSE],
        g |-> IF TooFar(line_num - ps1.forbid_line)
              THEN add_error_with_excerpt(r.g, line_num, pos, "ERROR_WARNING",
                     "Too many lines (>5) between Forbid() and Permit()")
              ELSE r.g]

\* the "Permit() comes first" branch: the Permit() is reported as
\* unmatched whatever forbid_active is, then a section is opened
PermitThenForbid(r, permit_pos, forbid_pos, line_num) ==
  LET g1 == add_error_with_excerpt(r.g, line_num, permit_pos, "ERROR_WARNING",
              "Permit() called without matching Forbid()")
  IN [ps |-> [r.ps EXCEPT !.permit_count = @ + 1, !.forbid_count = @ + 1,
                          !.forbid_active = TRUE, !.forbid_line = line_num],
      g |-> add_error_with_excerpt(g1, line_num, forbid_pos, "ERROR_WARNING",
              "Forbid() usage detected")]

CheckPairsNoEarlyExit(r, line, line_num) ==
  LET forbid_pos == LineFacts(line).forbid_pos
      permit_pos == LineFacts(line).permit_pos
      r0 == IF forbid_pos # 0 /\ permit_pos # 0
            THEN IF forbid_pos < permit_pos
                 THEN PermitAfterForbid(ForbidEvent(r, forbid_pos, line_num),
                                        permit_pos, line_num)
                 ELSE PermitThenForbid(r, permit_pos, forbid_pos, line_num)
            ELSE r
      r1 == IF forbid_pos # 0 THEN ForbidEvent(r0, forbid_pos, line_num) ELSE r0
  IN  IF permit_pos # 0 THEN PermitEvent(r1, permit_pos, line_num) ELSE r1

check_forbid_permit_pairs(r, line, line_num) ==
  LET forbid_pos == LineFacts(line).forbid_pos
      permit_pos == LineFacts(line).permit_pos
  IN  IF forbid_pos # 0 /\ permit_pos # 0
      THEN IF forbid_pos < permit_pos
           THEN PermitAfterForbid(ForbidEvent(r, forbid_pos, line_num),
                                  permit_pos, line_num)
           ELSE PermitThenForbid(r, permit_pos, forbid_pos, line_num)
      ELSE LET r1 == IF forbid_pos # 0 THEN ForbidEvent(r, forbid_pos, line_num) ELSE r
           IN  IF permit_pos # 0 THEN PermitEvent(r1, permit_pos, line_num) ELSE r1

\* validate_forbid_permit_pairs(): end-of-file finalization
ValidateCountsOnly(ps, g) ==
  IF ps.forbid_count > 0 /\ ps.permit_count = 0
  THEN add_error(g, ps.forbid_line, 1, "ERROR_WARNING",
                 "Forbid() used without matching Permit()")
  ELSE g

ValidateAnyMismatch(ps, g) ==
  IF ps.forbid_count > 0 \/ ps.permit_count > 0
  THEN LET g1 ==
             IF ps.forbid_count > 0 /\ ps.permit_count = 0
             THEN add_error(g, ps.forbid_line, 1, "ERROR_WARNING",
                            "Forbid() used without matching Permit()")
             ELSE IF ps.forbid_count # ps.permit_count
             THEN add_error(g, 1, 1, "ERROR_WARNING",
                            "Mismatched Forbid()/Permit() pairs: count mismatch")
             ELSE g
       IN  IF ps.forbid_active
           THEN add_error(g1, ps.forbid_line, 1, "ERROR_WARNING",
                          "File ends with active Forbid() without matching Permit()")
           ELSE g1
  ELSE g

validate_forbid_permit_pairs(ps, g) ==
  IF ps.forbid_count > 0 \/ ps.permit_count > 0
  THEN LET g1 ==
             IF ps.forbid_count > 0 /\ ps.permit_count = 0
             THEN add_error(g, ps.forbid_line, 1, "ERROR_WARNING",
                            "Forbid() used without matching Permit()")
             ELSE IF ps.forbid_count = 0 /\ ps.permit_count > 0 THEN g
             ELSE IF ps.forbid_count # ps.permit_count
             THEN add_error(g, 1, 1, "ERROR_WARNING",
                            "Mismatched Forbid()/Permit() pairs: count mismatch")
             ELSE g
       IN  IF ps.forbid_active
           THEN add_error(g1, ps.forbid_line, 1, "ERROR_WARNING",
                          "File ends with active Forbid() without matching Permit()")
           ELSE g1
  ELSE g

\* --------------------------------------------------------- process_line
\* memset(&parse_state, 0, sizeof(parse_state))
ZeroParseState ==
  [in_multiline_comment |-> FALSE, brace_depth |-> 0,
   statement_seen |-> [d \in 0..MAX_BLOCK_DEPTH - 1 |-> FALSE],
   forbid_active |-> FALSE, forbid_line |-> 0, permit_line |-> 0,
   forbid_count |-> 0, permit_count |-> 0]

\* "Update block state AFTER all checks": the braces of the sanitized line
\* applied left to right, from position i on.
\* *p == '{'
OpenBraceUnchecked(ps) ==
  [ps EXCEPT !.brace_depth = @ + 1]

OpenBrace(ps) ==
  IF ps.brace_depth < MAX_BLOCK_DEPTH - 1
  THEN [ps EXCEPT !.brace_depth = @ + 1,
                  !.statement_seen[ps.brace_depth + 1] = FALSE]
  ELSE ps

\* *p == '}'
CloseBraceKeepFlag(ps) ==
  IF ps.brace_depth > 0
  THEN [ps EXCEPT !.brace_depth = @ - 1]
  ELSE ps

CloseBraceClearsOuter(ps) ==
  IF ps.brace_depth > 0
  THEN [ps EXCEPT !.statement_seen[ps.brace_depth - 1] = FALSE,
                  !.brace_depth = @ - 1]
  ELSE ps

CloseBrace(ps) ==
  IF ps.brace_depth > 0
  THEN [ps EXCEPT !.statement_seen[ps.brace_depth] = FALSE,
                  !.brace_depth = @ - 1]
  ELSE ps

RECURSIVE UpdateBlockState(_, _, _)
UpdateBlockState(ps, clean, i) ==
  IF i > Len(clean) THEN ps
  ELSE IF clean[i] = "{" THEN UpdateBlockState(OpenBrace(ps), clean, i + 1)
  ELSE IF clean[i] = "}" THEN UpdateBlockState(CloseBrace(ps), clean, i + 1)
  ELSE UpdateBlockState(ps, clean, i + 1)

\* the text of a $CODEX: comment in original_line: <<"none">> when the
\* marker is absent or only blanks follow it, else <<"some", text>>
CodexComment(original_line) ==
  LET codex_pos == strstr(original_line, <<"$","C","O","D","E","X",":">>) IN
  IF codex_pos = 0 THEN <<"none">>
  ELSE LET n == Len(original_line)
           comment_start ==
             CHOOSE i \in codex_pos + 7..n + 1 :
               /\ i = n + 1 \/ original_line[i] \notin {" ", "\t"}
               /\ \A j \in codex_pos + 7..i - 1 : original_line[j] \in {" ", "\t"}
       IN  IF comment_start = n + 1 THEN <<"none">>
           ELSE LET comment_end ==
                      CHOOSE i \in comment_start..n + 1 :
                        /\ i = n + 1 \/ original_line[i] \in {"/", "*"}
                        /\ \A j \in comment_start..i - 1 :
                             original_line[j] \notin {"/", "*"}
                IN  <<"some", SubSeq(original_line, comment_start, comment_end - 1)>>

DeclMsg == "Variable declaration after a statement is not allowed in C89."

\* A pass through process_line is a record
\*   ps, g      parse_state and the error table
\*   initial    initial_error_count
\*   ret        the function has returned
\*   clean      clean_line as far as it was written
\*   sanitized  the scan loop ran to its end and terminated clean_line
\*   classified the declaration-placement section classified the line
\*   paired     check_forbid_permit_pairs ran
\*   updated    the block-state update ran
\*   frees      number of free(line_copy) calls
Check(r, enabled, g2) ==
  IF r.ret \/ ~enabled THEN r
  ELSE [r EXCEPT !.g = g2, !.ret = g2.error_count > r.initial]

\* the standards checks of the enabled modes and the magic-number check, in
\* the order of the code, each followed by the return-if-a-diagnostic-was-
\* recorded test
C89Check(r, M, line_num) ==
  Check(r, M.c89, check_c89_standards(r.g, r.clean, line_num, M.sasc))

C99Check(r, M, line_num) ==
  Check(r, M.c99, check_c99_standards(r.g, r.clean, line_num))

AmigaCheck(r, M, line_num) ==
  Check(r, M.amiga, check_amiga_standards(r.g, r.clean, line_num))

NdkCheck(r, M, line_num) ==
  Check(r, M.ndk, check_ndk_standards(r.g, r.clean, line_num))

SascCheck(r, M, line_num) ==
  Check(r, M.sasc, check_sasc_standards(r.g, r.clean, line_num))

VbccCheck(r, M, line_num) ==
  Check(r, M.vbcc, check_vbcc_standards(r.g, r.clean, line_num))

DiceCheck(r, M, line_num) ==
  Check(r, M.dice, check_dice_standards(r.g, r.clean, line_num))

MemsafeCheck(r, M, line_num) ==
  Check(r, M.memsafe, check_memsafe_standards(r.g, r.clean, line_num))

MagicCheck(r, line_num) ==
  Check(r, TRUE, check_for_magic_numbers(r.g, r.clean, line_num))

StandardsChecks(r, M, line_num) ==
  MagicCheck(
    MemsafeCheck(
      DiceCheck(
        VbccCheck(
          SascCheck(
            NdkCheck(
              AmigaCheck(
                C99Check(C89Check(r, M, line_num), M, line_num),
                M, line_num),
              M, line_num),
            M, line_num),
          M, line_num),
        M, line_num),
      M, line_num),
    line_num)

CodexEcho(r, original_line, line_num) ==
  IF r.ret \/ r.g.error_count # r.initial THEN r
  ELSE LET cc == CodexComment(original_line) IN
       IF cc[1] = "none" THEN r
       ELSE [r EXCEPT !.g = add_codex_comment(r.g, line_num, cc[2])]

PairCheck(r, line_num) ==
  IF r.ret THEN r
  ELSE LET q == check_forbid_permit_pairs([ps |-> r.ps, g |-> r.g], r.clean, line_num)
       IN  [r EXCEPT !.ps = q.ps, !.g = q.g, !.paired = TRUE,
                     !.ret = q.g.error_count > r.initial]

DeclPlacement(r, c89, line_num) ==
  IF r.ret \/ ~c89 THEN r
  ELSE LET t == LineFacts(r.clean).trimmed
           shape == LineFacts(r.clean).shape
           d == r.ps.brace_depth
       IN  IF shape = "decl" /\ d > 0 /\ r.ps.statement_seen[d]
           THEN LET g2 == add_error_with_excerpt(r.g, line_num, t, "ERROR_SYNTAX", DeclMsg)
                IN  IF g2.error_count > r.initial
                    THEN [r EXCEPT !.g = g2, !.classified = TRUE, !.frees = 1, !.ret = TRUE]
                    ELSE [r EXCEPT !.g = g2, !.classified = TRUE, !.frees = 2]
           ELSE IF shape = "stmt" /\ d > 0
           THEN [r EXCEPT !.ps.statement_seen[d] = TRUE, !.classified = TRUE, !.frees = 1]
           ELSE [r EXCEPT !.classified = TRUE, !.frees = 1]

StyleCheck(r, original_line, line_num) ==
  IF r.ret \/ ~(strlen(original_line) > line_length_limit) THEN r
  ELSE LET g2 == add_error_with_excerpt(r.g, line_num, line_length_limit + ARRAY_OFFSET_1,
                                        "ERROR_STYLE", "Line exceeds maximum length.")
       IN  [r EXCEPT !.g = g2, !.ret = g2.error_count > r.initial]

BlockUpdate(r) ==
  IF r.ret THEN r
  ELSE [r EXCEPT !.ps = UpdateBlockState(r.ps, r.clean, 1), !.updated = TRUE]

\* process_line from the exit of its scan loop on: sc is the scanner state
\* at that exit, M the record of the validate_*_standards flags.
AfterScan(ps, g, M, line, line_num, sc) ==
  LET r0 == [ps |-> [ps EXCEPT !.in_multiline_comment = sc.in_comment],
             g |-> g, initial |-> g.error_count, ret |-> FALSE,
             clean |-> sc.out, sanitized |-> TRUE, classified |-> FALSE,
             paired |-> FALSE, updated |-> FALSE, frees |-> 0]
      g1 == IF sc.status = "cpp" /\ M.c89 /\ ~M.sasc
            THEN add_error_with_excerpt(g, line_num, sc.s, "ERROR_SYNTAX",
                   "C++ comments ('//') are not allowed in C89.")
            ELSE g
  IN  IF g1.error_count > g.error_count
      THEN [r0 EXCEPT !.g = g1, !.ret = TRUE, !.sanitized = FALSE]
      ELSE IF find_first_non_whitespace(sc.out) = Len(sc.out) + 1
      THEN [r0 EXCEPT !.g = g1, !.ret = TRUE]
      ELSE
        BlockUpdate(
          StyleCheck(
            DeclPlacement(
              PairCheck(
                StandardsChecks(CodexEcho([r0 EXCEPT !.g = g1], line, line_num),
                                M, line_num),
                line_num),
              M.c89, line_num),
            line, line_num))

process_line(ps, g, M, line, line_num) ==
  AfterScan(ps, g, M, line, line_num, Sanitize(line, ps.in_multiline_comment))

\* ------------------------------------------------------------------ main
Switches == {"AMIGA", "NDK", "C89", "C99", "SASC", "VBCC", "DICE", "MEMSAFE"}

\* the validate_*_standards globals as initialized at their definitions
DefaultModes ==
  [amiga |-> FALSE, ndk |-> FALSE, c89 |-> TRUE, c99 |-> FALSE,
   sasc |-> FALSE, vbcc |-> FALSE, dice |-> FALSE, memsafe |-> FALSE]

\* main(): the flags after the switches args were applied and the mode
\* dependencies resolved
ResolveModes(args) ==
  LET m0 == [amiga   |-> DefaultModes.amiga \/ "AMIGA" \in args,
             ndk     |-> DefaultModes.ndk \/ "NDK" \in args,
             c89     |-> DefaultModes.c89 \/ "C89" \in args,
             c99     |-> DefaultModes.c99 \/ "C99" \in args,
             sasc    |-> DefaultModes.sasc \/ "SASC" \in args,
             vbcc    |-> DefaultModes.vbcc \/ "VBCC" \in args,
             dice    |-> DefaultModes.dice \/ "DICE" \in args,
             memsafe |-> DefaultModes.memsafe \/ "MEMSAFE" \in args]
      m1 == IF m0.sasc THEN [m0 EXCEPT !.c89 = TRUE, !.c99 = FALSE] ELSE m0
      m2 == IF m1.vbcc THEN [m1 EXCEPT !.c99 = TRUE, !.c89 = FALSE] ELSE m1
      m3 == IF m2.amiga THEN [m2 EXCEPT !.ndk = TRUE] ELSE m2
      m4 == IF m3.dice THEN [m3 EXCEPT !.c89 = TRUE, !.ndk = TRUE] ELSE m3
      m5 == IF m4.memsafe THEN [m4 EXCEPT !.c89 = TRUE] ELSE m4
  IN  IF ~m5.c89 /\ ~m5.c99 /\ ~m5.sasc /\ ~m5.vbcc /\ ~m5.dice
      THEN [m5 EXCEPT !.c89 = TRUE] ELSE m5

EmptyErrors == [error_count |-> 0, errors |-> <<>>, notices |-> 0, calls |-> <<>>]

\* history of one process_line call: the line, parse_state on entry and
\* the pass record of the call without its parse_state and error table
TraceEntry(l, n, pre, r) ==
  [line |-> l, line_num |-> n, pre |-> pre, clean |-> r.clean,
   sanitized |-> r.sanitized, ret |-> r.ret, classified |-> r.classified,
   paired |-> r.paired, updated |-> r.updated, frees |-> r.frees]

InitWith(argsets, nfiles) ==
  /\ \E args \in argsets : validate = ResolveModes(args)
  /\ parse_state = ZeroParseState
  /\ errtab = EmptyErrors
  /\ cur_line_num = 0
  /\ total_lines = 0
  /\ files_left = nfiles
  /\ pc = "idle"
  /\ line_buffer = <<>>
  /\ scan = NoScan
  /\ trace = <<>>

\* process_file(): memset, Open
BeginFileKeepState ==
  /\ pc \in {"idle", "closed"}
  /\ files_left > 0
  /\ files_left' = files_left - 1
  /\ cur_line_num' = 0
  /\ trace' = <<>>
  /\ pc' = "reading"
  /\ UNCHANGED <<validate, parse_state, errtab, total_lines, line_buffer, scan>>

BeginFile ==
  /\ pc \in {"idle", "closed"}
  /\ files_left > 0
  /\ files_left' = files_left - 1
  /\ parse_state' = ZeroParseState
  /\ cur_line_num' = 0
  /\ trace' = <<>>
  /\ pc' = "reading"
  /\ UNCHANGED <<validate, errtab, total_lines, line_buffer, scan>>

\* where the program is after a process_line call: a second free() of
\* line_copy is undefined behaviour, after which the run either goes on or
\* is stopped by the fault
AfterLine(r) == IF r.frees > 1 THEN {"reading", "crashed"} ELSE {"reading"}

\* process_file(): one round of the FGets loop, the whole of process_line
ReadLineOf(lines, max) ==
  /\ pc = "reading"
  /\ total_lines < max
  /\ \E l \in lines :
       LET sc == Sanitize(l, parse_state.in_multiline_comment)
           r == AfterScan(parse_state, errtab, validate, l, cur_line_num + 1, sc)
       IN  /\ parse_state' = r.ps
           /\ errtab' = r.g
           /\ scan' = sc
           /\ trace' = Append(trace, TraceEntry(l, cur_line_num + 1, parse_state, r))
           /\ line_buffer' = l
           /\ pc' \in AfterLine(r)
  /\ cur_line_num' = cur_line_num + 1
  /\ total_lines' = total_lines + 1
  /\ UNCHANGED <<validate, files_left>>

ReadLine == ReadLineOf(BlockLines, MaxLines)

\* process_file(): FGets returned NULL
EndOfFileAbandon ==
  /\ pc = "reading"
  /\ errtab' = IF parse_state.in_multiline_comment
               THEN add_error(errtab, cur_line_num, 1, "ERROR_WARNING",
                              "File ends with an unterminated '/*' comment.")
               ELSE validate_forbid_permit_pairs(parse_state, errtab)
  /\ pc' = "closed"
  /\ UNCHANGED <<validate, parse_state, cur_line_num, total_lines, files_left,
                 line_buffer, scan, trace>>

EndOfFile ==
  /\ pc = "reading"
  /\ LET g1 == IF parse_state.in_multiline_comment
               THEN add_error(errtab, cur_line_num, 1, "ERROR_WARNING",
                              "File ends with an unterminated '/*' comment.")
               ELSE errtab
     IN  errtab' = validate_forbid_permit_pairs(parse_state, g1)
  /\ pc' = "closed"
  /\ UNCHANGED <<validate, parse_state, cur_line_num, total_lines, files_left,
                 line_buffer, scan, trace>>

\* --- the same program with the scan loop of process_line taken one
\* --- iteration at a time
ScanBegin ==
  /\ pc = "reading"
  /\ total_lines < MaxScanLines
  /\ \E l \in ScanLines : line_buffer' = l
  /\ cur_line_num' = cur_line_num + 1
  /\ total_lines' = total_lines + 1
  /\ scan' = [ScanStart(parse_state.in_multiline_comment)
               EXCEPT !.quote0 = scan.in_string \/ scan.in_char_literal]
  /\ pc' = "scanning"
  /\ UNCHANGED <<validate, parse_state, errtab, files_left, trace>>

ScanLoop ==
  /\ pc = "scanning"
  /\ scan.status = "scan"
  /\ scan' = ScanStep(line_buffer, scan)
  /\ parse_state' = [parse_state EXCEPT !.in_multiline_comment = scan'.in_comment]
  /\ UNCHANGED <<validate, errtab, cur_line_num, total_lines, files_left, pc, line_buffer, trace>>

ScanFinish ==
  /\ pc = "scanning"
  /\ scan.status # "scan"
  /\ LET r == AfterScan(parse_state, errtab, validate, line_buffer, cur_line_num, scan)
     IN  /\ parse_state' = r.ps
         /\ errtab' = r.g
         /\ pc' \in AfterLine(r)
  /\ line_buffer' = <<>>
  /\ scan' = [NoScan EXCEPT !.in_string = scan.in_string,
                            !.in_char_literal = scan.in_char_literal]
  /\ UNCHANGED <<validate, cur_line_num, total_lines, files_left, trace>>

\* -------------------------------------------------------- specifications
Init == InitWith({{}, {"SASC"}}, 1)

Next ==
  \/ BeginFile
  \/ ReadLine
  \/ EndOfFile

Spec == Init /\ [][Next]_vars

\* The same program with the scan loop taken one iteration per step.

ScanInit == InitWith({{}, {"SASC"}}, 1)

ScanNext ==
  \/ BeginFile
  \/ ScanBegin
  \/ ScanLoop
  \/ ScanFinish
  \/ EndOfFile

ScanSpec == ScanInit /\ [][ScanNext]_vars

\* The same program on files that nest blocks up to the depth bound.
ReadDepthLine == ReadLineOf(DepthLines, MaxDepthLines)

DepthInit == InitWith({{}}, 1)

DepthNext ==
  \/ BeginFile
  \/ ReadDepthLine
  \/ EndOfFile

DepthSpec == DepthInit /\ [][DepthNext]_vars

\* The same program run on two files, one after the other.
ReadFileLine == ReadLineOf(FileLines, MaxFileLines)

FileInit == InitWith({{}}, 2)

FileNext ==
  \/ BeginFile
  \/ ReadFileLine
  \/ EndOfFile

FileSpec == FileInit /\ [][FileNext]_vars

\* The same program on files of Forbid() and Permit() calls.
ReadPairLine == ReadLineOf(PairLines, MaxPairLines)

PairInit == InitWith({{}}, 1)

PairNext ==
  \/ BeginFile
  \/ ReadPairLine
  \/ EndOfFile

PairSpec == PairInit /\ [][PairNext]_vars

\* The same program started with every combination of the mode switches.
ReadModeLine == ReadLineOf(ModeLines, MaxModeLines)

ModeInit == InitWith(SUBSET Switches, 1)

ModeNext ==
  \/ BeginFile
  \/ ReadModeLine
  \/ EndOfFile

ModeSpec == ModeInit /\ [][ModeNext]_vars

\* The same program on the last file of a run whose earlier files have left
\* the error table two entries short of its capacity.
FilledErrors ==
  LET e == NewEntry(1, 1, "ERROR_WARNING", "Forbid() usage detected")
      filled == [k \in 1..MAX_ERRORS - 2 |-> e]
  IN  [error_count |-> MAX_ERRORS - 2, errors |-> filled, notices |-> 0,
       calls |-> filled]

ReadOverflowLine == ReadLineOf(OverflowLines, MaxOverflowLines)

OverflowInit ==
  /\ validate = ResolveModes({})
  /\ parse_state = ZeroParseState
  /\ errtab = FilledErrors
  /\ cur_line_num = 0
  /\ total_lines = 0
  /\ files_left = 1
  /\ pc = "idle"
  /\ line_buffer = <<>>
  /\ scan = NoScan
  /\ trace = <<>>

OverflowNext ==
  \/ BeginFile
  \/ ReadOverflowLine
  \/ EndOfFile

OverflowSpec == OverflowInit /\ [][OverflowNext]_vars

\* The same program on files in which Forbid() calls nest.
ReadNestLine == ReadLineOf(NestLines, MaxNestLines)

NestInit == InitWith({{}}, 1)

NestNext ==
  \/ BeginFile
  \/ ReadNestLine
  \/ EndOfFile

NestSpec == NestInit /\ [][NestNext]_vars

\* The same program on files with one or several calls on a line.
ReadCallLine == ReadLineOf(CallLines, MaxCallLines)

CallInit == InitWith({{}}, 1)

CallNext ==
  \/ BeginFile
  \/ ReadCallLine
  \/ EndOfFile

CallSpec == CallInit /\ [][CallNext]_vars

\* The same program on the last file of a run whose earlier files have
\* filled the error table to its capacity.
FullErrors ==
  LET e == NewEntry(1, 1, "ERROR_WARNING", "Forbid() usage detected")
      filled == [k \in 1..MAX_ERRORS |-> e]
  IN  [error_count |-> MAX_ERRORS, errors |-> filled, notices |-> 0,
       calls |-> filled]

ReadFreeLine == ReadLineOf(FreeLines, MaxFreeLines)

FreeInit ==
  /\ validate = ResolveModes({})
  /\ parse_state = ZeroParseState
  /\ errtab = FullErrors
  /\ cur_line_num = 0
  /\ total_lines = 0
  /\ files_left = 1
  /\ pc = "idle"
  /\ line_buffer = <<>>
  /\ scan = NoScan
  /\ trace = <<>>

FreeNext ==
  \/ BeginFile
  \/ ReadFreeLine
  \/ EndOfFile

FreeSpec == FreeInit /\ [][FreeNext]_vars

TypeOK ==
  /\ pc \in {"idle", "reading", "scanning", "closed", "crashed"}
  /\ parse_state.brace_depth \in 0..MAX_BLOCK_DEPTH - 1
  /\ errtab.error_count \in 0..MAX_ERRORS + 1

\* ------------------------------------------------- vocabulary of the claims
\* the entry of the line processed last
Last == trace[Len(trace)]

\* declaration-after-statement diagnostics recorded for line n
DeclDiags(n) ==
  Cardinality({k \in 1..Len(errtab.errors) :
                 /\ errtab.errors[k].line_number = n
                 /\ errtab.errors[k].message = DeclMsg})

\* number of occurrences of character c in the sanitized lines of the file
Braces(c) ==
  Cardinality(UNION {{<<i, k>> : k \in {q \in 1..Len(trace[i].clean) : trace[i].clean[q] = c}} :
                       i \in 1..Len(trace)})

\* nesting depth after the braces of text[i..] are applied at depth d
RECURSIVE Nest(_, _, _)
Nest(d, text, i) ==
  IF i > Len(text) THEN d
  ELSE Nest(IF text[i] = "{" THEN d + 1
            ELSE IF text[i] = "}" /\ d > 0 THEN d - 1 ELSE d, text, i + 1)

\* nesting depth at the start of line k of the file
RECURSIVE NestBefore(_)
NestBefore(k) ==
  IF k = 1 THEN 0 ELSE Nest(NestBefore(k - 1), trace[k - 1].clean, 1)

\* lowest nesting depth reached while the braces of line k are applied
NestLow(k) ==
  LET text == trace[k].clean
      cuts == {0} \cup {q \in 1..Len(text) : text[q] = "}"}
      low(q) == Nest(NestBefore(k), SubSeq(text, 1, q), 1)
  IN  CHOOSE m \in {low(q) : q \in cuts} : \A q \in cuts : m <= low(q)

\* line i lies in the block that encloses line j, i before j
SameBlock(i, j) ==
  /\ i < j
  /\ NestBefore(i) = NestBefore(j)
  /\ \A k \in i..j - 1 : NestLow(k) >= NestBefore(j)

Shape(k) == LineFacts(trace[k].clean).shape

\* an ordinary-statement line precedes line j in the block of line j
StatementBefore(j) == \E i \in 1..j - 1 : Shape(i) = "stmt" /\ SameBlock(i, j)

\* C1: a file whose sanitized lines hold as many '{' as '}' ends with
\* brace depth 0, whatever the order of the braces and the diagnostics.
C1_BalancedDepthZero ==
  (/\ pc = "closed"
   /\ \A i \in 1..Len(trace) : trace[i].sanitized
   /\ Braces("{") = Braces("}")) => parse_state.brace_depth = 0

\* C2: the braces of the sanitized text of every line are applied to the
\* brace depth as the last step of the line, whether or not a check
\* reported the line.
C2_BracesAlwaysApplied ==
  (trace # <<>> /\ Last.sanitized) =>
    parse_state.brace_depth
      = UpdateBlockState(Last.pre, Last.clean, 1).brace_depth

\* C3: in C89 mode, a simple declaration line at depth >= 1 that follows an
\* ordinary-statement line of the same block gets exactly one
\* declaration-after-statement diagnostic.
C3_DeclAfterStatementFlagged ==
  (trace # <<>> /\ validate.c89 /\ Shape(Len(trace)) = "decl"
     /\ NestBefore(Len(trace)) >= 1 /\ StatementBefore(Len(trace)))
    => DeclDiags(Len(trace)) = 1

\* C4: a simple declaration line with no ordinary-statement line before it
\* in its own block, and any declaration at file scope, gets no
\* declaration-after-statement diagnostic.
C4_LeadingDeclNotFlagged ==
  (trace # <<>> /\ Shape(Len(trace)) = "decl"
     /\ (NestBefore(Len(trace)) = 0 \/ ~StatementBefore(Len(trace))))
    => DeclDiags(Len(trace)) = 0

\* the first token of the text is a declaration keyword and its first '('
\* comes before its first ';'
ParenBeforeSemicolon(text) ==
  LET t == find_first_non_whitespace(text) IN
  /\ t <= Len(text)
  /\ is_declaration_keyword(strtok(From(text, t), WS)[1])
  /\ strchr(text, "(") # 0 /\ strchr(text, ";") # 0
  /\ strchr(text, "(") < strchr(text, ";")

\* C5 as stated: a line whose first token is a declaration keyword and
\* whose first '(' precedes its first ';' gets no
\* declaration-after-statement diagnostic and leaves statement_seen as it
\* was.
C5_PrototypeLeavesFlags ==
  (trace # <<>> /\ Last.sanitized /\ ParenBeforeSemicolon(Last.clean)) =>
    /\ DeclDiags(Len(trace)) = 0
    /\ parse_state.statement_seen = Last.pre.statement_seen

\* C5 (amended): such a line gets no declaration-after-statement
\* diagnostic, and the only change it can make to statement_seen is the
\* one the braces of the line itself make in the closing block-state
\* update.
C5_PrototypeNotClassified ==
  (trace # <<>> /\ Last.sanitized /\ ParenBeforeSemicolon(Last.clean)) =>
    /\ DeclDiags(Len(trace)) = 0
    /\ parse_state.statement_seen
         = IF Last.updated
           THEN UpdateBlockState(Last.pre, Last.clean, 1).statement_seen
           ELSE Last.pre.statement_seen
    /\ (\A q \in 1..Len(Last.clean) : Last.clean[q] # "}")
         => parse_state.statement_seen = Last.pre.statement_seen

\* a prototype line was classified in C89 mode inside a block in which a
\* statement had been seen, and no diagnostic was recorded for it
C5_Witness ==
  /\ trace # <<>> /\ validate.c89
  /\ Last.sanitized /\ ParenBeforeSemicolon(Last.clean)
  /\ Last.classified
  /\ Last.pre.brace_depth >= 1
  /\ Last.pre.statement_seen[Last.pre.brace_depth]
  /\ DeclDiags(Len(trace)) = 0
  /\ parse_state.statement_seen[Last.pre.brace_depth]

\* ------------------------------------------ vocabulary of the scan claims
\* the scan loop of the current line has been left
ScanLeft == pc = "scanning" /\ scan.status # "scan"

\* ... and process_line goes on with clean_line: it does not return from
\* inside the loop (the return that follows a recorded '//' diagnostic)
OutputProduced ==
  /\ ScanLeft
  /\ \/ scan.status = "end"
     \/ ~(validate.c89 /\ ~validate.sasc)
     \/ errtab.error_count > MAX_ERRORS

\* The literal that is open before position i of text, read as C reads it:
\* q is the quote character of the literal open before position j ("none"
\* outside a literal), a backslash inside a literal takes the next character
\* with it, and only the quote that opened a literal closes it.
RECURSIVE OpenQuote(_, _, _, _)
OpenQuote(text, j, q, i) ==
  IF j >= i THEN q
  ELSE IF q # "none" /\ text[j] = "\\" THEN OpenQuote(text, j + 2, q, i)
  ELSE IF q = "none" /\ text[j] \in {"\"", "'"} THEN OpenQuote(text, j + 1, text[j], i)
  ELSE IF q = text[j] THEN OpenQuote(text, j + 1, "none", i)
  ELSE OpenQuote(text, j + 1, q, i)

\* positions of text at which a '//' or a '/*' pair starts
MarkerPairs(text) ==
  {i \in 1..Len(text) - 1 : text[i] = "/" /\ text[i + 1] \in {"/", "*"}}

\* C6: when the sanitizer produces an output line, no '//' and no '/*'
\* pair of the output lies outside a quoted region.
C6_NoMarkerOutsideQuotes ==
  OutputProduced =>
    \A i \in MarkerPairs(scan.out) : OpenQuote(scan.out, 1, "none", i) # "none"

\* C7: sanitizing is idempotent: sanitizing an output line again, with
\* in_comment false, returns it unchanged and leaves in_comment false.
C7_SanitizeIdempotent ==
  OutputProduced =>
    /\ Sanitize(scan.out, FALSE).out = scan.out
    /\ ~Sanitize(scan.out, FALSE).in_comment

\* a line with a block comment in it was sanitized to a non-empty text
C7_Witness ==
  /\ OutputProduced
  /\ \E i \in 1..Len(line_buffer) - 1 : line_buffer[i] = "/" /\ line_buffer[i + 1] = "*"
  /\ scan.out # <<>> /\ scan.out # line_buffer
  /\ Sanitize(scan.out, FALSE).out = scan.out

\* C8: inside a quoted literal a '/*' pair does not set in_comment, a '//'
\* pair does not end the line, and the '/' of the marker is copied to the
\* output.
C8_MarkersInertInQuotes ==
  [][(/\ pc = "scanning" /\ scan.status = "scan"
      /\ ~scan.in_comment
      /\ scan.in_string \/ scan.in_char_literal
      /\ IsCommentOpen(line_buffer, scan) \/ IsLineComment(line_buffer, scan))
     => (/\ ~scan'.in_comment
         /\ scan'.status = "scan"
         /\ scan'.out = Append(scan.out, "/"))]_vars

\* C9: both quote flags are false when the scan of a line starts, and the
\* output and the outgoing in_comment of a line are those of a scan of its
\* text that starts from the incoming in_comment alone.
C9_QuoteFlagsLineLocal ==
  /\ (pc = "scanning" /\ scan.s = 1)
       => (~scan.in_string /\ ~scan.in_char_literal)
  /\ ScanLeft =>
       LET fresh == ScanFrom(line_buffer, [NoScan EXCEPT !.in_comment = scan.in0,
                                                      !.in0 = scan.in0])
       IN  /\ scan.out = fresh.out
           /\ scan.in_comment = fresh.in_comment
           /\ scan.status = fresh.status

\* the scan of a line starts after a line that ended inside a quote
C9_Witness ==
  /\ pc = "scanning" /\ scan.s = 1 /\ scan.status = "scan"
  /\ cur_line_num >= 2
  /\ scan.quote0
  /\ ~scan.in_string /\ ~scan.in_char_literal

\* C10: the read position never passes the terminator of the line and the
\* write position never passes the read position.
C10_PositionsInBounds ==
  pc = "scanning" =>
    /\ scan.s <= Len(line_buffer) + 1
    /\ Len(scan.out) + 1 <= scan.s
    /\ CharAt(line_buffer, scan.s) # OOB

\* the scan of a line that ends in a backslash inside a quote, of one that
\* ends in a lone '/', or of one that ends inside a block comment, has
\* reached the terminator
C10_Witness ==
  /\ pc = "scanning" /\ scan.status = "end"
  /\ scan.s = Len(line_buffer) + 1
  /\ line_buffer # <<>>
  /\ \/ line_buffer[Len(line_buffer)] = "\\" /\ (scan.in_string \/ scan.in_char_literal)
     \/ line_buffer[Len(line_buffer)] = "/" /\ ~scan.in_comment
     \/ scan.in_comment

\* C11: the brace depth stays within 0..MAX_BLOCK_DEPTH-1, so
\* statement_seen[depth] is always an entry of the array; an opening brace
\* at the bound and a closing brace at depth 0 leave the depth unchanged.
C11_DepthInBounds ==
  /\ parse_state.brace_depth \in 0..MAX_BLOCK_DEPTH - 1
  /\ DOMAIN parse_state.statement_seen = 0..MAX_BLOCK_DEPTH - 1
  /\ parse_state.brace_depth \in DOMAIN parse_state.statement_seen
  /\ (trace # <<>> /\ Last.updated /\ Last.clean = <<"{">>
        /\ Last.pre.brace_depth = MAX_BLOCK_DEPTH - 1)
       => parse_state.brace_depth = MAX_BLOCK_DEPTH - 1
  /\ (trace # <<>> /\ Last.updated /\ Last.clean = <<"}">>
        /\ Last.pre.brace_depth = 0)
       => parse_state.brace_depth = 0

\* an opening brace was applied at the depth bound, after a statement had
\* been recorded at that depth
C11_Witness ==
  /\ trace # <<>> /\ Last.updated /\ Last.clean = <<"{">>
  /\ Last.pre.brace_depth = MAX_BLOCK_DEPTH - 1
  /\ Last.pre.statement_seen[MAX_BLOCK_DEPTH - 1]
  /\ parse_state.brace_depth = MAX_BLOCK_DEPTH - 1

\* ------------------------------------ vocabulary of the file-level claims
\* number of submissions in calls that carry the message msg
CallsWith(calls, msg) ==
  Cardinality({k \in 1..Len(calls) : calls[k].message = msg})

\* the submissions made for line n
CallsFor(n) ==
  SelectSeq(errtab.calls, LAMBDA e : e.line_number = n)

UnterminatedMsg == "File ends with an unterminated '/*' comment."
UnmatchedForbidMsg == "Forbid() used without matching Permit()"
ActiveForbidMsg == "File ends with active Forbid() without matching Permit()"
TooManyLinesMsg == "Too many lines (>5) between Forbid() and Permit()"

\* C12: when the processing of a file begins the whole scan state is zero,
\* whatever state the previous file ended in.
C12_FreshStatePerFile ==
  (pc = "reading" /\ cur_line_num = 0) =>
    /\ ~parse_state.in_multiline_comment
    /\ parse_state.brace_depth = 0
    /\ \A d \in DOMAIN parse_state.statement_seen : ~parse_state.statement_seen[d]
    /\ ~parse_state.forbid_active
    /\ parse_state.forbid_count = 0 /\ parse_state.permit_count = 0
    /\ parse_state.forbid_line = 0 /\ parse_state.permit_line = 0

\* the second file begins after a first file that ended inside a block
\* comment with an active Forbid()
C12_Witness ==
  /\ pc = "reading" /\ cur_line_num = 0 /\ files_left = 0
  /\ total_lines >= 2
  /\ CallsWith(errtab.calls, UnterminatedMsg) = 1
  /\ CallsWith(errtab.calls, ActiveForbidMsg) = 1
  /\ parse_state = ZeroParseState

\* C13: a file in which a Forbid() was counted and no Permit() was counted
\* gets, at end of file, the 'used without matching Permit()' and the
\* 'file ends with active Forbid()' diagnostics, both at the recorded
\* Forbid() line.
C13_UnmatchedForbidReported ==
  (pc = "closed" /\ parse_state.forbid_count > 0 /\ parse_state.permit_count = 0) =>
    LET n == Len(errtab.calls) IN
    /\ n >= 2
    /\ errtab.calls[n - 1] = [line_number |-> parse_state.forbid_line,
                              type |-> "ERROR_WARNING",
                              message |-> UnmatchedForbidMsg]
    /\ errtab.calls[n] = [line_number |-> parse_state.forbid_line,
                          type |-> "ERROR_WARNING",
                          message |-> ActiveForbidMsg]
    /\ CallsWith(errtab.calls, UnmatchedForbidMsg) = 1
    /\ CallsWith(errtab.calls, ActiveForbidMsg) = 1
    /\ parse_state.forbid_line \in 1..Len(trace)
    /\ LineFacts(trace[parse_state.forbid_line].clean).forbid_pos # 0

\* a file of Forbid() lines only has been closed; the Forbid() of line 1
\* is the recorded one
C13_Witness ==
  /\ pc = "closed"
  /\ parse_state.forbid_count >= 2 /\ parse_state.permit_count = 0
  /\ parse_state.forbid_line = 1
  /\ CallsWith(errtab.calls, UnmatchedForbidMsg) = 1
  /\ CallsWith(errtab.calls, ActiveForbidMsg) = 1

\* C14: a Permit() met while a section is active gets exactly one 'too
\* many lines' diagnostic if and only if it is more than 5 lines after
\* the recorded Forbid(), and in both cases permit_line is recorded and
\* the section is closed.
C14_PermitClosesSection ==
  (/\ trace # <<>> /\ Last.paired
   /\ Last.pre.forbid_active
   /\ LineFacts(Last.clean).permit_pos # 0) =>
    /\ CallsWith(CallsFor(Last.line_num), TooManyLinesMsg)
         = IF Last.line_num - Last.pre.forbid_line > 5 THEN 1 ELSE 0
    /\ parse_state.permit_line = Last.line_num
    /\ LineFacts(Last.clean).forbid_pos = 0 => ~parse_state.forbid_active

\* C15: the stored diagnostics never exceed MAX_ERRORS, error_count never
\* exceeds MAX_ERRORS + 1, the overflow notice is issued exactly once, and
\* every submission after it is dropped and leaves the stored entries as
\* they are.
C15_ErrorTableBounded ==
  /\ [](/\ Len(errtab.errors) <= MAX_ERRORS
        /\ errtab.error_count <= MAX_ERRORS + 1
        /\ errtab.notices <= 1
        /\ (Len(errtab.calls) > MAX_ERRORS) <=> (errtab.notices = 1)
        /\ (Len(errtab.calls) > MAX_ERRORS)
             => errtab.errors = SubSeq(errtab.calls, 1, MAX_ERRORS))
  /\ [][errtab.notices = 1
          => /\ errtab'.errors = errtab.errors
             /\ errtab'.error_count = errtab.error_count
             /\ errtab'.notices = errtab.notices]_vars

\* submissions went on after the overflow notice, a $CODEX: echo among them
C15_Witness ==
  /\ errtab.notices = 1
  /\ Len(errtab.calls) >= MAX_ERRORS + 3
  /\ \E k \in MAX_ERRORS + 2..Len(errtab.calls) :
        errtab.calls[k].type = "ERROR_COMMENT"
  /\ Len(errtab.errors) = MAX_ERRORS

\* C16: at the end of a file exactly one 'unterminated comment' warning is
\* submitted when in_comment is set and none when it is clear; in both
\* cases the pairing finalization runs.
C16_UnterminatedCommentWarned ==
  [][(pc = "reading" /\ pc' = "closed") =>
       LET new == SubSeq(errtab'.calls, Len(errtab.calls) + 1, Len(errtab'.calls))
       IN  /\ CallsWith(new, UnterminatedMsg)
                = IF parse_state.in_multiline_comment THEN 1 ELSE 0
           /\ CallsWith(new, ActiveForbidMsg)
                = IF parse_state.forbid_active THEN 1 ELSE 0
           /\ CallsWith(new, UnmatchedForbidMsg)
                = IF parse_state.forbid_count > 0 /\ parse_state.permit_count = 0
                  THEN 1 ELSE 0]_vars

\* a file has been closed inside a block comment with a Forbid() active:
\* the warning and the diagnostics of the pairing finalization are there
C16_Witness ==
  /\ pc = "closed"
  /\ parse_state.in_multiline_comment /\ parse_state.forbid_active
  /\ CallsWith(errtab.calls, UnterminatedMsg) >= 1
  /\ CallsWith(errtab.calls, ActiveForbidMsg) >= 1
  /\ errtab.calls[Len(errtab.calls)].message = ActiveForbidMsg

CppCommentMsg == "C++ comments ('//') are not allowed in C89."
CppCommentInLineMsg == "C++ comments ('//') are not allowed in C89"

\* C17: with C89 active and SASC inactive, a line on which the scanner
\* meets '//' outside a block comment gets the C++-comment diagnostic and
\* nothing else; with SASC active no line gets a C++-comment diagnostic.
C17_LineCommentFirstWins ==
  /\ [][(/\ pc = "scanning" /\ pc' = "reading"
          /\ scan.status = "cpp"
          /\ validate.c89 /\ ~validate.sasc)
         => errtab'.calls
              = Append(errtab.calls,
                       [line_number |-> cur_line_num, type |-> "ERROR_SYNTAX",
                        message |-> CppCommentMsg])]_vars
  /\ [](validate.sasc =>
          /\ CallsWith(errtab.calls, CppCommentMsg) = 0
          /\ CallsWith(errtab.calls, CppCommentInLineMsg) = 0)

\* in C89 mode a second line with '//' in it has been processed and got
\* the C++-comment diagnostic as its only one
C17_Witness ==
  /\ pc = "reading" /\ cur_line_num = 2
  /\ validate.c89 /\ ~validate.sasc
  /\ errtab.calls # <<>>
  /\ errtab.calls[Len(errtab.calls)]
       = [line_number |-> 2, type |-> "ERROR_SYNTAX", message |-> CppCommentMsg]
  /\ Len(CallsFor(2)) = 1

\* C18: whenever SASC is among the switches, C89 validation is on and C99
\* validation is off when the files are processed.
C18_SascImpliesC89 ==
  (pc # "idle" /\ validate.sasc) => (validate.c89 /\ ~validate.c99)

\* C19: whenever AMIGA is among the switches, C89 validation and NDK
\* validation are both on when the files are processed.
C19_AmigaImpliesC89AndNdk ==
  (pc # "idle" /\ validate.amiga) => (validate.c89 /\ validate.ndk)

\* the line holds '$CODEX:' followed by at least one non-blank character
HasCodexNote(text) ==
  \E p \in 1..Len(text) :
    /\ MatchAt(text, <<"$","C","O","D","E","X",":">>, p)
    /\ \E q \in p + 7..Len(text) : text[q] \notin {" ", "\t"}

\* C20: a line that holds '$CODEX:' followed by a non-blank character, and
\* that got no diagnostic before, records exactly one COMMENT entry, with
\* text taken from behind the marker; also when the line holds nothing
\* but the comment.
C20_CodexNoteEchoed ==
  [][(/\ pc = "reading" /\ pc' = "reading"
      /\ HasCodexNote(line_buffer')
      /\ trace'[Len(trace')].sanitized)
     => LET new == SubSeq(errtab'.calls, Len(errtab.calls) + 1, Len(errtab'.calls))
            notes == {k \in 1..Len(new) : new[k].type = "ERROR_COMMENT"}
        IN  /\ Cardinality(notes) = 1
            /\ \A k \in notes :
                 /\ new[k].line_number = cur_line_num'
                 /\ new[k].message # <<>>
                 /\ \E q \in 1..Len(line_buffer') :
                      new[k].message
                        = SubSeq(line_buffer', q, q + Len(new[k].message) - 1)]_vars

\* --------------------------------- vocabulary of the pairing claims
\* the fields of parse_state that belong to the pairing monitor
PairingFields(ps) ==
  [forbid_active |-> ps.forbid_active, forbid_line |-> ps.forbid_line,
   permit_line |-> ps.permit_line, forbid_count |-> ps.forbid_count,
   permit_count |-> ps.permit_count]

PermitUnmatchedMsg == "Permit() called without matching Forbid()"
NestedForbidMsg == "Forbid() called without matching Permit() from previous Forbid()"
ForbidUsageMsg == "Forbid() usage detected"
MismatchMsg == "Mismatched Forbid()/Permit() pairs: count mismatch"

\* C21: a line with a Permit() call before a Forbid() call leaves the
\* pairing state and the diagnostics that the only-Permit() rule followed by
\* the only-Forbid() rule give from the same starting state.
C21_PermitFirstIsLeaveThenEnter ==
  [][(/\ pc = "reading" /\ pc' = "reading"
      /\ trace'[Len(trace')].paired
      /\ LineFacts(trace'[Len(trace')].clean).permit_pos # 0
      /\ LineFacts(trace'[Len(trace')].clean).forbid_pos # 0
      /\ LineFacts(trace'[Len(trace')].clean).permit_pos
            < LineFacts(trace'[Len(trace')].clean).forbid_pos)
     => LET f == LineFacts(trace'[Len(trace')].clean)
            q == ForbidEvent(PermitEvent([ps |-> parse_state, g |-> errtab],
                                         f.permit_pos, cur_line_num'),
                             f.forbid_pos, cur_line_num')
        IN  /\ PairingFields(parse_state') = PairingFields(q.ps)
            /\ errtab' = q.g]_vars

\* C22 as stated: at end of file every difference of the two counts other
\* than 'Forbid() counted, no Permit() counted' gets the count-mismatch
\* diagnostic, a file with Permit() calls and no Forbid() call included.
C22_EveryMismatchReported ==
  (/\ pc = "closed"
   /\ parse_state.forbid_count # parse_state.permit_count
   /\ ~(parse_state.forbid_count > 0 /\ parse_state.permit_count = 0))
    => CallsWith(errtab.calls, MismatchMsg) = 1

\* C22: at end of file the count-mismatch diagnostic is submitted exactly
\* when both counts are positive and differ; a file in which Permit() was
\* counted and Forbid() was not gets no count-mismatch diagnostic, each of
\* its counted Permit() calls having got the 'without matching Forbid()'
\* diagnostic on its line.
C22_MismatchWhenBothCounted ==
  pc = "closed" =>
    /\ CallsWith(errtab.calls, MismatchMsg)
         = IF /\ parse_state.forbid_count > 0 /\ parse_state.permit_count > 0
              /\ parse_state.forbid_count # parse_state.permit_count
           THEN 1 ELSE 0
    /\ parse_state.forbid_count = 0
         => CallsWith(errtab.calls, PermitUnmatchedMsg) = parse_state.permit_count

\* a file of Permit() lines only has been closed without a count-mismatch
\* diagnostic
C22_Witness ==
  /\ pc = "closed"
  /\ parse_state.forbid_count = 0 /\ parse_state.permit_count >= 2
  /\ CallsWith(errtab.calls, MismatchMsg) = 0
  /\ CallsWith(errtab.calls, PermitUnmatchedMsg) = parse_state.permit_count

\* the submissions of the step
NewCalls == SubSeq(errtab'.calls, Len(errtab.calls) + 1, Len(errtab'.calls))

\* C23: a Forbid() met while a section is active, alone on its line or
\* before a Permit() on it, raises forbid_count by one and gets the one
\* nesting diagnostic; forbid_line stays, and alone on its line it leaves
\* forbid_active, permit_line and permit_count as they are, so the next
\* Permit() is measured from the first Forbid().
C23_NestedForbidKeepsSection ==
  [][(/\ pc = "reading" /\ pc' = "reading"
      /\ trace'[Len(trace')].paired
      /\ parse_state.forbid_active
      /\ LineFacts(trace'[Len(trace')].clean).forbid_pos # 0
      /\ \/ LineFacts(trace'[Len(trace')].clean).permit_pos = 0
         \/ LineFacts(trace'[Len(trace')].clean).forbid_pos
              < LineFacts(trace'[Len(trace')].clean).permit_pos)
     => /\ parse_state'.forbid_count = parse_state.forbid_count + 1
        /\ CallsWith(NewCalls, NestedForbidMsg) = 1
        /\ CallsWith(NewCalls, ForbidUsageMsg) = 0
        /\ parse_state'.forbid_line = parse_state.forbid_line
        /\ IF LineFacts(trace'[Len(trace')].clean).permit_pos = 0
           THEN /\ Len(NewCalls) = 1
                /\ parse_state'.forbid_active
                /\ parse_state'.permit_line = parse_state.permit_line
                /\ parse_state'.permit_count = parse_state.permit_count
           ELSE /\ CallsWith(NewCalls, TooManyLinesMsg)
                     = IF cur_line_num' - parse_state.forbid_line > 5 THEN 1 ELSE 0
                /\ ~parse_state'.forbid_active]_vars

\* a Forbid() on line 1, a nested one on line 2 and the Permit() on line 7:
\* the distance diagnostic shows the distance was taken from line 1
C23_Witness ==
  /\ pc = "reading" /\ cur_line_num = 7
  /\ trace[1].paired /\ LineFacts(trace[1].clean).forbid_pos # 0
  /\ trace[2].paired /\ trace[2].pre.forbid_active
  /\ LineFacts(trace[2].clean).forbid_pos # 0
  /\ LineFacts(trace[2].clean).permit_pos = 0
  /\ \A k \in 3..6 : LineFacts(trace[k].clean).permit_pos = 0
  /\ LineFacts(trace[7].clean).forbid_pos = 0
  /\ Last.pre.forbid_line = 1
  /\ CallsWith(CallsFor(2), NestedForbidMsg) = 1
  /\ CallsWith(CallsFor(7), TooManyLinesMsg) = 1
  /\ ~parse_state.forbid_active

\* the messages of check_forbid_permit_pairs
PairingMsgs ==
  {PermitUnmatchedMsg, NestedForbidMsg, ForbidUsageMsg, TooManyLinesMsg}

\* number of submissions in calls that come from the per-line pairing check
PairingCalls(calls) ==
  Cardinality({k \in 1..Len(calls) : calls[k].message \in PairingMsgs})

\* C24: the pairing check of a line submits at most two diagnostics, two
\* only for a line with both a Forbid() and a Permit() call, and raises
\* forbid_count by one if the line has a Forbid() call and permit_count by
\* one if it has a Permit() call, whatever the number of calls on the line.
C24_AtMostTwoPerLine ==
  [][(/\ pc = "reading" /\ pc' = "reading"
      /\ trace'[Len(trace')].paired)
     => /\ PairingCalls(NewCalls) <= 2
        /\ PairingCalls(NewCalls) = 2
             => /\ LineFacts(trace'[Len(trace')].clean).forbid_pos # 0
                /\ LineFacts(trace'[Len(trace')].clean).permit_pos # 0
        /\ parse_state'.forbid_count - parse_state.forbid_count
             = IF LineFacts(trace'[Len(trace')].clean).forbid_pos # 0 THEN 1 ELSE 0
        /\ parse_state'.permit_count - parse_state.permit_count
             = IF LineFacts(trace'[Len(trace')].clean).permit_pos # 0 THEN 1 ELSE 0]_vars

\* a line with two Forbid() calls has raised forbid_count by one and got
\* one diagnostic, and the line 'Permit(); Forbid();' after it got two
C24_Witness ==
  /\ pc = "reading" /\ cur_line_num = 2
  /\ trace[1].paired /\ trace[2].paired
  /\ trace[1].clean = <<"F","o","r","b","i","d","(",")",";"," ",
                        "F","o","r","b","i","d"," ","(",")",";">>
  /\ trace[2].pre.forbid_count = 1
  /\ LineFacts(trace[2].clean).permit_pos # 0
  /\ LineFacts(trace[2].clean).forbid_pos # 0
  /\ PairingCalls(CallsFor(1)) = 1
  /\ PairingCalls(CallsFor(2)) = 2
  /\ parse_state.forbid_count = 2 /\ parse_state.permit_count = 1

\* C25: every line with non-empty sanitized text is classified by the
\* declaration-placement section (in C89 mode) and reaches the pairing
\* check, whatever the rule checkers and the magic-number check report
\* for it.
C25_CoreChecksBeforeRuleCheckers ==
  \A k \in 1..Len(trace) :
    (/\ trace[k].sanitized
     /\ Shape(k) # "blank"
     /\ ~HasCodexNote(trace[k].line))
      => /\ trace[k].paired
         /\ validate.c89 => trace[k].classified

\* ---------------------------------- vocabulary of the statement flags
\* parse_state after line k of the file was processed
Post(k) == IF k < Len(trace) THEN trace[k + 1].pre ELSE parse_state

\* lowest depth reached while the braces of line k were applied, from the
\* depth the line started at
ActualLow(k) ==
  IF ~trace[k].updated THEN trace[k].pre.brace_depth
  ELSE LET text == trace[k].clean
           cuts == {0} \cup {q \in 1..Len(text) : text[q] = "}"}
           low(q) == Nest(trace[k].pre.brace_depth, SubSeq(text, 1, q), 1)
       IN  CHOOSE m \in {low(q) : q \in cuts} : \A q \in cuts : m <= low(q)

\* C26: a line whose braces end in a block entered on that line leaves
\* statement_seen false at the new depth, and a declaration on the next
\* line gets no declaration-after-statement diagnostic; and when a later
\* line closes that block, the flag of the enclosing depth is what it was
\* when the block was entered.
C26_FlagsFollowStack ==
  /\ \A k \in 1..Len(trace) :
        (trace[k].updated /\ Post(k).brace_depth > ActualLow(k))
          => /\ ~Post(k).statement_seen[Post(k).brace_depth]
             /\ (k < Len(trace) /\ Shape(k + 1) = "decl") => DeclDiags(k + 1) = 0
  /\ \A i \in 1..Len(trace) : \A j \in i + 1..Len(trace) :
        (/\ trace[i].updated /\ Post(i).brace_depth > ActualLow(i)
         /\ \A k \in i..j - 1 : Post(k).brace_depth >= Post(i).brace_depth
         /\ \A k \in i + 1..j - 1 : ActualLow(k) >= Post(i).brace_depth
         /\ Post(j).brace_depth = Post(i).brace_depth - 1
         /\ ActualLow(j) = Post(i).brace_depth - 1)
          => Post(j).statement_seen[Post(i).brace_depth - 1]
               = Post(i).statement_seen[Post(i).brace_depth - 1]

\* a block was entered at depth 1 with the flag of depth 1 set, a
\* declaration on its first line got no diagnostic, and the closing brace
\* came back to depth 1 with the flag still set
C26_Witness ==
  /\ Len(trace) = 4
  /\ trace[2].pre.brace_depth = 1 /\ trace[2].updated
  /\ Post(2).brace_depth = 2 /\ Post(2).statement_seen[1]
  /\ ~Post(2).statement_seen[2]
  /\ Shape(3) = "decl" /\ trace[3].classified /\ DeclDiags(3) = 0
  /\ trace[4].updated
  /\ parse_state.brace_depth = 1 /\ parse_state.statement_seen[1]

\* C27: no line ends in a memory fault: the call of process_line that
\* classifies a line releases line_copy exactly once, and a call that does
\* not allocate it releases nothing, also after the error table overflowed.
C27_TokenBufferFreedOnce ==
  /\ pc # "crashed"
  /\ \A k \in 1..Len(trace) :
        trace[k].frees = IF trace[k].classified THEN 1 ELSE 0

\* C28: while a line is scanned, at most one of in_multiline_comment,
\* in_string and in_char_literal is set.
C28_TogglesExclusive ==
  pc = "scanning" =>
    /\ ~(scan.in_string /\ scan.in_char_literal)
    /\ ~(scan.in_comment /\ scan.in_string)
    /\ ~(scan.in_comment /\ scan.in_char_literal)

\* C29: between lines the flag of depth 0 and the flags of the depths
\* above the current depth are clear, and a line sets no flag but the one
\* of the depth it started at.
C29_FlagsBelowDepthOnly ==
  /\ [](/\ ~parse_state.statement_seen[0]
        /\ \A d \in DOMAIN parse_state.statement_seen :
              d > parse_state.brace_depth => ~parse_state.statement_seen[d])
  /\ [][\A d \in DOMAIN parse_state.statement_seen :
          (parse_state'.statement_seen[d] /\ ~parse_state.statement_seen[d])
            => d = parse_state.brace_depth /\ d > 0]_vars

\* a statement had set the flag of depth 2 and the closing brace of the
\* block cleared it on the way back to depth 1
C29_Witness ==
  /\ trace # <<>> /\ Last.updated
  /\ Last.pre.brace_depth = 2 /\ Last.pre.statement_seen[2]
  /\ parse_state.brace_depth = 1
  /\ ~parse_state.statement_seen[2]

\* the first call on line k, as the pairing check takes the line
FirstEvent(k) ==
  LET f == LineFacts(trace[k].clean) IN
  IF ~trace[k].paired \/ (f.forbid_pos = 0 /\ f.permit_pos = 0) THEN "none"
  ELSE IF f.forbid_pos # 0 /\ (f.permit_pos = 0 \/ f.forbid_pos < f.permit_pos)
  THEN "enter" ELSE "leave"

\* line k met a Forbid() while a section was active or a Permit() while
\* none was
Misnested(k) ==
  \/ FirstEvent(k) = "enter" /\ trace[k].pre.forbid_active
  \/ FirstEvent(k) = "leave" /\ ~trace[k].pre.forbid_active

\* C30: as long as no line of the file met a Forbid() while active or a
\* Permit() while inactive, forbid_count - permit_count is 1 while a
\* section is active and 0 otherwise; such a file that ends inactive has
\* equal counts and gets no diagnostic from the end-of-file finalization.
C30_CountsTrackSection ==
  (\A k \in 1..Len(trace) : ~Misnested(k)) =>
    /\ parse_state.forbid_count - parse_state.permit_count
         = IF parse_state.forbid_active THEN 1 ELSE 0
    /\ (pc = "closed" /\ ~parse_state.forbid_active) =>
         /\ parse_state.forbid_count = parse_state.permit_count
         /\ CallsWith(errtab.calls, MismatchMsg) = 0
         /\ CallsWith(errtab.calls, UnmatchedForbidMsg) = 0
         /\ CallsWith(errtab.calls, ActiveForbidMsg) = 0

\* a file with two sections, the second opened on the line that closes
\* the first, has been closed with both counts at 2
C30_Witness ==
  /\ pc = "closed"
  /\ \A k \in 1..Len(trace) : ~Misnested(k)
  /\ \E k \in 1..Len(trace) :
        /\ FirstEvent(k) = "leave"
        /\ LineFacts(trace[k].clean).forbid_pos # 0
  /\ parse_state.forbid_count = 2 /\ parse_state.permit_count = 2
  /\ ~parse_state.forbid_active
  /\ CallsWith(errtab.calls, MismatchMsg) = 0

====
